---- MODULE Spec2Model ----
(***************************************************************************)
(* ClinicalNoteTool: the free-text identifier detector (lib/pii.ts) and    *)
(* the POST /api/soap handler that gates the upstream call on it.          *)
(*                                                                         *)
(* A text is a sequence of characters; a character is a one-character      *)
(* string, and a non-ASCII character is the string of its entity name      *)
(* (aring, auml, ouml, eacute, ndash for the en dash).                     *)
(* A regular expression of the source is a tree of records, matched with   *)
(* the backtracking priority order of the ECMAScript semantics.            *)
(***************************************************************************)
EXTENDS Integers, Sequences, FiniteSets, TLC

(* ------------------------------ characters ------------------------------ *)
\* the characters of a string literal, as a sequence of one-character strings
Chars(w) == [k \in 1..Len(w) |-> SubSeq(w, k, k)]
Range(f) == {f[k] : k \in DOMAIN f}
SetOf(w) == Range(Chars(w))

\* the non-ASCII characters of the source's patterns
aring == "aring"
auml == "auml"
ouml == "ouml"
eacute == "eacute"
Aring == "Aring"
Auml == "Auml"
Ouml == "Ouml"
Eacute == "Eacute"
ndash == "ndash"

AsciiUpper == Chars("ABCDEFGHIJKLMNOPQRSTUVWXYZ")
AsciiLower == Chars("abcdefghijklmnopqrstuvwxyz")
UpperSeq == AsciiUpper \o <<Aring, Auml, Ouml, Eacute>>
LowerSeq == AsciiLower \o <<aring, auml, ouml, eacute>>

\* \d
Digit == SetOf("0123456789")
\* \p{Lu}, \p{Ll}, \p{L}
Lu == Range(UpperSeq)
Ll == Range(LowerSeq)
Letter == Lu \cup Ll
\* \w as \b reads it: ASCII letters, digits and underscore only
WordChar == Range(AsciiUpper) \cup Range(AsciiLower) \cup Digit \cup {"_"}
\* \s
Space == {" ", "\t", "\n", "\r"}
\* the other characters a text may hold
Punct == SetOf("-+:.,/'@#_%;!?") \cup {ndash}
Char == Letter \cup Digit \cup Space \cup Punct
\* \S
NonSpace == Char \ Space

\* String.prototype.toLowerCase / toUpperCase on one character
LowerOf(c) == IF c \in Lu THEN LowerSeq[CHOOSE k \in DOMAIN UpperSeq : UpperSeq[k] = c] ELSE c
UpperOf(c) == IF c \in Ll THEN UpperSeq[CHOOSE k \in DOMAIN LowerSeq : LowerSeq[k] = c] ELSE c
toLowerCase(s) == [k \in DOMAIN s |-> LowerOf(s[k])]
\* the characters a set matches under the /i flag
Ci(S) == S \cup {LowerOf(c) : c \in S} \cup {UpperOf(c) : c \in S}

(* -------------------------- regular expressions ------------------------- *)
\* Inf stands for an unbounded quantifier: no text of the model is that long
Inf == 64
One(S) == [t |-> "set", s |-> S]
Cat(rs) == [t |-> "seq", a |-> rs]
Alt(rs) == [t |-> "alt", a |-> rs]
Rep(r, lo, hi) == [t |-> "rep", r |-> r, lo |-> lo, hi |-> hi]
Opt(r) == Rep(r, 0, 1)
Star(r) == Rep(r, 0, Inf)
Plus(r) == Rep(r, 1, Inf)
\* \b, ^ and $ (no /m flag anywhere in the source)
B == [t |-> "wb"]
Bol == [t |-> "bol"]
Eol == [t |-> "eol"]
\* one literal character, and a literal word, case-sensitive and under /i
Ch(c) == One({c})
ChI(c) == One(Ci({c}))
Lit(w) == Cat([k \in 1..Len(w) |-> Ch(SubSeq(w, k, k))])
LitI(w) == Cat([k \in 1..Len(w) |-> ChI(SubSeq(w, k, k))])
\* \s* \s+ \s? \d
S0 == Star(One(Space))
S1 == Plus(One(Space))
SOpt == Opt(One(Space))
D == One(Digit)

\* the /g flag of an expression
G(r) == [t |-> "g", r |-> r]
global(re) == re.t = "g"
IsWordAt(s, i) == i >= 1 /\ i <= Len(s) /\ s[i] \in WordChar

RECURSIVE Ends(_, _, _), FlatEnds(_, _, _), SeqEnds(_, _, _), AltEnds(_, _, _)
RECURSIVE RepEnds(_, _, _, _, _), RepMore(_, _, _, _, _)
\* The positions at which a match of re that starts at position i of s may
\* end (one past its last character), in the order in which a backtracking
\* matcher tries them: the head is the match the engine reports.
Ends(re, s, i) ==
  CASE re.t = "set" -> IF i <= Len(s) /\ s[i] \in re.s THEN <<i + 1>> ELSE <<>>
    [] re.t = "seq" -> SeqEnds(re.a, s, <<i>>)
    [] re.t = "alt" -> AltEnds(re.a, s, i)
    [] re.t = "rep" -> RepEnds(re.r, re.lo, re.hi, s, i)
    [] re.t = "wb"  -> IF IsWordAt(s, i - 1) # IsWordAt(s, i) THEN <<i>> ELSE <<>>
    [] re.t = "bol" -> IF i = 1 THEN <<i>> ELSE <<>>
    [] re.t = "eol" -> IF i = Len(s) + 1 THEN <<i>> ELSE <<>>
    [] re.t = "g"   -> Ends(re.r, s, i)
FlatEnds(re, s, L) ==
  IF L = <<>> THEN <<>> ELSE Ends(re, s, Head(L)) \o FlatEnds(re, s, Tail(L))
SeqEnds(rs, s, L) ==
  IF rs = <<>> \/ L = <<>> THEN L ELSE SeqEnds(Tail(rs), s, FlatEnds(Head(rs), s, L))
AltEnds(rs, s, i) ==
  IF rs = <<>> THEN <<>> ELSE Ends(Head(rs), s, i) \o AltEnds(Tail(rs), s, i)
\* a greedy quantifier over one character class: the longest run first, then
\* one character less at a time, down to lo characters
RunEnds(set, lo, hi, s, i) ==
  LET top == IF hi < Len(s) + 1 - i THEN hi ELSE Len(s) + 1 - i
      stops == {k \in 0..top : k = top \/ s[i + k] \notin set}
      run == CHOOSE k \in stops : \A j \in stops : k <= j
  IN  IF run < lo THEN <<>> ELSE [j \in 1..(run - lo + 1) |-> i + run + 1 - j]
RECURSIVE Beyond(_, _)
\* the positions of L beyond i: an iteration that consumed nothing is not repeated
Beyond(L, i) ==
  IF L = <<>> THEN <<>>
  ELSE (IF Head(L) > i THEN <<Head(L)>> ELSE <<>>) \o Beyond(Tail(L), i)
\* a greedy quantifier: one more iteration is tried before stopping here
RepEnds(r, lo, hi, s, i) ==
  IF hi = 0 THEN <<i>>
  ELSE IF r.t = "set" THEN RunEnds(r.s, lo, hi, s, i)
  ELSE RepMore(r, lo, hi, s, Beyond(Ends(r, s, i), i))
         \o (IF lo = 0 THEN <<i>> ELSE <<>>)
RepMore(r, lo, hi, s, L) ==
  IF L = <<>> THEN <<>>
  ELSE RepEnds(r, IF lo > 0 THEN lo - 1 ELSE 0, hi - 1, s, Head(L)) \o RepMore(r, lo, hi, s, Tail(L))

\* A match: the half-open interval [start, end) of positions of the text.
NoMatch == [start |-> 0, end |-> 0]
RECURSIVE FirstIn(_, _, _, _)
\* the left-most match of re that starts in lo..hi, by bisection of lo..hi
FirstIn(re, s, lo, hi) ==
  IF lo > hi THEN NoMatch
  ELSE IF lo = hi
  THEN LET e == Ends(re, s, lo)
       IN  IF e # <<>> THEN [start |-> lo, end |-> Head(e)] ELSE NoMatch
  ELSE LET mid == (lo + hi) \div 2
           left == FirstIn(re, s, lo, mid)
       IN  IF left # NoMatch THEN left ELSE FirstIn(re, s, mid + 1, hi)
\* RegExp exec from lastIndex p: the left-most start at which re matches
MatchFrom(re, s, p) == FirstIn(re, s, p, Len(s) + 1)
RECURSIVE matchAll(_, _, _)
\* String.prototype.matchAll(re) for a /g expression, scanning from p: the
\* successive non-overlapping matches (an empty match advances by one)
matchAll(re, s, p) ==
  LET m == MatchFrom(re, s, p)
  IN  IF m = NoMatch THEN <<>>
      ELSE <<m>> \o matchAll(re, s, IF m.end = m.start THEN m.end + 1 ELSE m.end)
\* text.slice(start, end) on 1-based half-open positions
Slice(s, a, b) == SubSeq(s, a, b - 1)
Hit(s, m) == Slice(s, m.start, m.end)
\* null, and the empty string, which the callers treat alike (if (!match))
null == <<>>
RECURSIVE FirstHit(_, _)
FirstHit(s, ms) ==
  IF ms = <<>> THEN null
  ELSE IF Hit(s, Head(ms)) # <<>> THEN Hit(s, Head(ms)) ELSE FirstHit(s, Tail(ms))
firstRegexMatch(text, re) == FirstHit(text, matchAll(re, text, 1))
\* a || b on string | null
Or(a, b) == IF a # null THEN a ELSE b
\* RegExp.prototype.test for an expression without /g
Test(re, s) == MatchFrom(re, s, 1) # NoMatch

(* ------------------------------ string helpers -------------------------- *)
RECURSIVE trimStart(_)
trimStart(s) == IF s # <<>> /\ Head(s) \in Space THEN trimStart(Tail(s)) ELSE s
RECURSIVE trimEnd(_)
trimEnd(s) == IF s # <<>> /\ s[Len(s)] \in Space THEN trimEnd(SubSeq(s, 1, Len(s) - 1)) ELSE s
trim(s) == trimEnd(trimStart(s))
\* the elements of a finite set of integers, in increasing order
Ascending(S) == [k \in 1..Cardinality(S) |-> CHOOSE i \in S : Cardinality({j \in S : j <= i}) = k]
\* text.replace(/\r\n/g, "\n"): every "\r" that a "\n" follows is dropped
ReplaceCrLf(s) ==
  LET cr == {k \in 1..(Len(s) - 1) : s[k] = "\r" /\ s[k + 1] = "\n"}
      keep == Ascending((1..Len(s)) \ cr)
  IN  IF cr = {} THEN s ELSE [k \in 1..Len(keep) |-> s[keep[k]]]
\* s.split(sep): sep one character of Sep, or with run a whole run of them
\* (the pattern [Sep]+); the empty pieces are kept, as split keeps them
Split(s, Sep, run) ==
  LET isSep(k) == k >= 1 /\ k <= Len(s) /\ s[k] \in Sep
      first == Ascending({k \in 1..Len(s) : isSep(k) /\ (run => ~isSep(k - 1))})
      last == Ascending({k \in 1..Len(s) : isSep(k) /\ (run => ~isSep(k + 1))})
      n == Len(first)
  IN  [k \in 1..(n + 1) |->
         SubSeq(s, IF k = 1 THEN 1 ELSE last[k - 1] + 1, IF k = n + 1 THEN Len(s) ELSE first[k] - 1)]
\* .filter(Boolean) on strings
RECURSIVE NonEmpty(_)
NonEmpty(ps) ==
  IF ps = <<>> THEN <<>>
  ELSE (IF Head(ps) # <<>> THEN <<Head(ps)>> ELSE <<>>) \o NonEmpty(Tail(ps))
\* /\d/.test(s)
\* /\d/
hasDigitRe == D

(* ------------------------------- detectors ------------------------------ *)
\* /\b(?:\d{2}|\d{4})(?:0[1-9]|1[0-2])(?:0[1-9]|[12]\d|3[01])[-+]\d{4}\b/g
detectSwedishPersonalNumber_re ==
  G(Cat(<<B, Alt(<<Rep(D, 2, 2), Rep(D, 4, 4)>>),
    Alt(<<Cat(<<Ch("0"), One(SetOf("123456789"))>>), Cat(<<Ch("1"), One(SetOf("012"))>>)>>),
    Alt(<<Cat(<<Ch("0"), One(SetOf("123456789"))>>), Cat(<<One(SetOf("12")), D>>),
    Cat(<<Ch("3"), One(SetOf("01"))>>)>>), One(SetOf("-+")), Rep(D, 4, 4), B>>))
detectSwedishPersonalNumber(text) == firstRegexMatch(text, detectSwedishPersonalNumber_re)

\* /\b(?:19|20)\d{2}[-/.](?:0?[1-9]|1[0-2])[-/.](?:0?[1-9]|[12]\d|3[01])\b/g
isoLikeRe ==
  G(Cat(<<B, Alt(<<Lit("19"), Lit("20")>>), Rep(D, 2, 2), One(SetOf("-/.")),
    Alt(<<Cat(<<Opt(Ch("0")), One(SetOf("123456789"))>>), Cat(<<Ch("1"), One(SetOf("012"))>>)>>),
    One(SetOf("-/.")), Alt(<<Cat(<<Opt(Ch("0")), One(SetOf("123456789"))>>),
    Cat(<<One(SetOf("12")), D>>), Cat(<<Ch("3"), One(SetOf("01"))>>)>>), B>>))
\* /\b(?:0?[1-9]|[12]\d|3[01])[-/.](?:0?[1-9]|1[0-2])[-/.](?:19|20)\d{2}\b/g
dmyRe ==
  G(Cat(<<B, Alt(<<Cat(<<Opt(Ch("0")), One(SetOf("123456789"))>>), Cat(<<One(SetOf("12")), D>>),
    Cat(<<Ch("3"), One(SetOf("01"))>>)>>), One(SetOf("-/.")),
    Alt(<<Cat(<<Opt(Ch("0")), One(SetOf("123456789"))>>), Cat(<<Ch("1"), One(SetOf("012"))>>)>>),
    One(SetOf("-/.")), Alt(<<Lit("19"), Lit("20")>>), Rep(D, 2, 2), B>>))
\* /\b(?:0?[1-9]|1[0-2])[-/.](?:0?[1-9]|[12]\d|3[01])[-/.](?:19|20)\d{2}\b/g
mdyRe ==
  G(Cat(<<B, Alt(<<Cat(<<Opt(Ch("0")), One(SetOf("123456789"))>>),
    Cat(<<Ch("1"), One(SetOf("012"))>>)>>), One(SetOf("-/.")),
    Alt(<<Cat(<<Opt(Ch("0")), One(SetOf("123456789"))>>), Cat(<<One(SetOf("12")), D>>),
    Cat(<<Ch("3"), One(SetOf("01"))>>)>>), One(SetOf("-/.")), Alt(<<Lit("19"), Lit("20")>>),
    Rep(D, 2, 2), B>>))
\* /\b(?:jan(?:uary)?|feb(?:ruary)?|mar(?:ch)?|apr(?:il)?|may|jun(?:e)?|jul(?:y)?|aug(?:ust)?|sep(?:t(?:ember)?)?|oct(?:ober)?|nov(?:ember)?|dec(?:ember)?|januari|februari|mars|april|maj|juni|juli|augusti|september|oktober|november|december|okt|sep|aug|jun|jul|dec|nov|mar|apr)\b/gi
monthRe ==
  G(Cat(<<B, Alt(<<Cat(<<LitI("jan"), Opt(LitI("uary"))>>),
    Cat(<<LitI("feb"), Opt(LitI("ruary"))>>), Cat(<<LitI("mar"), Opt(LitI("ch"))>>),
    Cat(<<LitI("apr"), Opt(LitI("il"))>>), LitI("may"), Cat(<<LitI("jun"), Opt(ChI("e"))>>),
    Cat(<<LitI("jul"), Opt(ChI("y"))>>), Cat(<<LitI("aug"), Opt(LitI("ust"))>>),
    Cat(<<LitI("sep"), Opt(Cat(<<ChI("t"), Opt(LitI("ember"))>>))>>),
    Cat(<<LitI("oct"), Opt(LitI("ober"))>>), Cat(<<LitI("nov"), Opt(LitI("ember"))>>),
    Cat(<<LitI("dec"), Opt(LitI("ember"))>>), LitI("januari"), LitI("februari"), LitI("mars"),
    LitI("april"), LitI("maj"), LitI("juni"), LitI("juli"), LitI("augusti"), LitI("september"),
    LitI("oktober"), LitI("november"), LitI("december"), LitI("okt"), LitI("sep"), LitI("aug"),
    LitI("jun"), LitI("jul"), LitI("dec"), LitI("nov"), LitI("mar"), LitI("apr")>>), B>>))
\* a faulty variant of detectDate: day-month-year is tried before ISO-like
detectDate_dmyFirst(text) ==
  LET numeric == Or(firstRegexMatch(text, dmyRe),
                    Or(firstRegexMatch(text, isoLikeRe), firstRegexMatch(text, mdyRe)))
  IN  IF numeric # null THEN numeric ELSE firstRegexMatch(text, monthRe)
detectDate(text) ==
  LET numeric == Or(firstRegexMatch(text, isoLikeRe),
                    Or(firstRegexMatch(text, dmyRe), firstRegexMatch(text, mdyRe)))
  IN  IF numeric # null THEN numeric ELSE firstRegexMatch(text, monthRe)

\* /\b(?:[01]?\d|2[0-3]):[0-5]\d\b/g
time24hRe ==
  G(Cat(<<B, Alt(<<Cat(<<Opt(One(SetOf("01"))), D>>), Cat(<<Ch("2"), One(SetOf("0123"))>>)>>),
    Ch(":"), One(SetOf("012345")), D, B>>))
\* /\b(?:0?[1-9]|1[0-2])\s?(?:am|pm)\b/gi
timeAmPmRe ==
  G(Cat(<<B, Alt(<<Cat(<<Opt(Ch("0")), One(SetOf("123456789"))>>),
    Cat(<<Ch("1"), One(SetOf("012"))>>)>>), SOpt, Alt(<<LitI("am"), LitI("pm")>>), B>>))
\* /\b(?:noon|midnight|tonight|overnight|last\s+night|yesterday\s+night)\b/gi
timeWordsRe ==
  G(Cat(<<B, Alt(<<LitI("noon"), LitI("midnight"), LitI("tonight"), LitI("overnight"),
    Cat(<<LitI("last"), S1, LitI("night")>>), Cat(<<LitI("yesterday"), S1, LitI("night")>>)>>),
    B>>))
\* /\b(?:during|in|at|on)\s+(?:the\s+)?(?:night|morning|afternoon|evening)\b/gi
timeOfDayRe ==
  G(Cat(<<B, Alt(<<LitI("during"), LitI("in"), LitI("at"), LitI("on")>>), S1,
    Opt(Cat(<<LitI("the"), S1>>)),
    Alt(<<LitI("night"), LitI("morning"), LitI("afternoon"), LitI("evening")>>), B>>))
\* /\b(?:earlier|later)\s+(?:today|tonight|this\s+morning|this\s+afternoon|this\s+evening)\b/gi
timeRangeRe ==
  G(Cat(<<B, Alt(<<LitI("earlier"), LitI("later")>>), S1,
    Alt(<<LitI("today"), LitI("tonight"), Cat(<<LitI("this"), S1, LitI("morning")>>),
    Cat(<<LitI("this"), S1, LitI("afternoon")>>), Cat(<<LitI("this"), S1, LitI("evening")>>)>>),
    B>>))
\* /\b(?:morning|afternoon|evening|night)\b/gi
timeOfDayBareRe ==
  G(Cat(<<B, Alt(<<LitI("morning"), LitI("afternoon"), LitI("evening"), LitI("night")>>), B>>))
\* /\b(?:i\s+natt|ikv[{auml}a]ll|i\s+morse|i\s+morgon|i\s+kv[{auml}a]ll|ig[{aring}a]r\s+kv[{auml}a]ll|ig[{aring}a]r\s+natt|kl\.?\s*\d{1,2}(?::[0-5]\d)?)\b/gi
timeWordsSvRe ==
  G(Cat(<<B, Alt(<<Cat(<<ChI("i"), S1, LitI("natt")>>),
    Cat(<<LitI("ikv"), One(Ci({auml, "a"})), LitI("ll")>>), Cat(<<ChI("i"), S1, LitI("morse")>>),
    Cat(<<ChI("i"), S1, LitI("morgon")>>),
    Cat(<<ChI("i"), S1, LitI("kv"), One(Ci({auml, "a"})), LitI("ll")>>),
    Cat(<<LitI("ig"), One(Ci({aring, "a"})), ChI("r"), S1, LitI("kv"), One(Ci({auml, "a"})),
    LitI("ll")>>), Cat(<<LitI("ig"), One(Ci({aring, "a"})), ChI("r"), S1, LitI("natt")>>),
    Cat(<<LitI("kl"), Opt(Ch(".")), S0, Rep(D, 1, 2),
    Opt(Cat(<<Ch(":"), One(SetOf("012345")), D>>))>>)>>), B>>))
\* /\b(?:under|p[{aring}a])\s+(?:natten|morgonen|f[{ouml}o]rmiddagen|eftermiddagen|kv[{auml}a]llen|dagen)\b/gi
timeOfDaySvRe ==
  G(Cat(<<B, Alt(<<LitI("under"), Cat(<<ChI("p"), One(Ci({aring, "a"}))>>)>>), S1,
    Alt(<<LitI("natten"), LitI("morgonen"),
    Cat(<<ChI("f"), One(Ci({ouml, "o"})), LitI("rmiddagen")>>), LitI("eftermiddagen"),
    Cat(<<LitI("kv"), One(Ci({auml, "a"})), LitI("llen")>>), LitI("dagen")>>), B>>))
\* /\b(?:morgon|f[{ouml}o]rmiddag|eftermiddag|kv[{auml}a]ll|natt|natten|morgonen|f[{ouml}o]rmiddagen|eftermiddagen|kv[{auml}a]llen)\b/gi
timeOfDayBareSvRe ==
  G(Cat(<<B, Alt(<<LitI("morgon"), Cat(<<ChI("f"), One(Ci({ouml, "o"})), LitI("rmiddag")>>),
    LitI("eftermiddag"), Cat(<<LitI("kv"), One(Ci({auml, "a"})), LitI("ll")>>), LitI("natt"),
    LitI("natten"), LitI("morgonen"), Cat(<<ChI("f"), One(Ci({ouml, "o"})), LitI("rmiddagen")>>),
    LitI("eftermiddagen"), Cat(<<LitI("kv"), One(Ci({auml, "a"})), LitI("llen")>>)>>), B>>))
\* /\b(?:today|yesterday|tomorrow|day\s+before\s+yesterday|day\s+after\s+tomorrow|recently|earlier|later|last\s+(?:night|week|month|year)|next\s+(?:week|month|year)|this\s+(?:week|month|year))\b/gi
relativeRe ==
  G(Cat(<<B, Alt(<<LitI("today"), LitI("yesterday"), LitI("tomorrow"),
    Cat(<<LitI("day"), S1, LitI("before"), S1, LitI("yesterday")>>),
    Cat(<<LitI("day"), S1, LitI("after"), S1, LitI("tomorrow")>>), LitI("recently"),
    LitI("earlier"), LitI("later"),
    Cat(<<LitI("last"), S1, Alt(<<LitI("night"), LitI("week"), LitI("month"), LitI("year")>>)>>),
    Cat(<<LitI("next"), S1, Alt(<<LitI("week"), LitI("month"), LitI("year")>>)>>),
    Cat(<<LitI("this"), S1, Alt(<<LitI("week"), LitI("month"), LitI("year")>>)>>)>>), B>>))
\* /\b(?:idag|ig[{aring}a]r|imorgon|f[{ouml}o]rrg[{aring}a]r|[{ouml}o]vermorgon|nyligen|tidigare|senare|f[{ouml}o]rra\s+(?:veckan|m[{aring}a]naden|[{aring}a]ret)|n[{auml}a]sta\s+(?:vecka|m[{aring}a]nad|[{aring}a]r)|denna\s+(?:vecka|m[{aring}a]nad|[{aring}a]r))\b/gi
relativeSvRe ==
  G(Cat(<<B, Alt(<<LitI("idag"), Cat(<<LitI("ig"), One(Ci({aring, "a"})), ChI("r")>>),
    LitI("imorgon"), Cat(<<ChI("f"), One(Ci({ouml, "o"})), LitI("rrg"), One(Ci({aring, "a"})),
    ChI("r")>>), Cat(<<One(Ci({ouml, "o"})), LitI("vermorgon")>>), LitI("nyligen"),
    LitI("tidigare"), LitI("senare"),
    Cat(<<ChI("f"), One(Ci({ouml, "o"})), LitI("rra"), S1,
    Alt(<<LitI("veckan"), Cat(<<ChI("m"), One(Ci({aring, "a"})), LitI("naden")>>),
    Cat(<<One(Ci({aring, "a"})), LitI("ret")>>)>>)>>),
    Cat(<<ChI("n"), One(Ci({auml, "a"})), LitI("sta"), S1,
    Alt(<<LitI("vecka"), Cat(<<ChI("m"), One(Ci({aring, "a"})), LitI("nad")>>),
    Cat(<<One(Ci({aring, "a"})), ChI("r")>>)>>)>>),
    Cat(<<LitI("denna"), S1,
    Alt(<<LitI("vecka"), Cat(<<ChI("m"), One(Ci({aring, "a"})), LitI("nad")>>),
    Cat(<<One(Ci({aring, "a"})), ChI("r")>>)>>)>>)>>), B>>))
\* /\b(?:last|next|this|on)\s+(?:mon(?:day)?|tue(?:s(?:day)?)?|wed(?:nesday)?|thu(?:r(?:sday)?)?|fri(?:day)?|sat(?:urday)?|sun(?:day)?)\b/gi
weekdayRe ==
  G(Cat(<<B, Alt(<<LitI("last"), LitI("next"), LitI("this"), LitI("on")>>), S1,
    Alt(<<Cat(<<LitI("mon"), Opt(LitI("day"))>>),
    Cat(<<LitI("tue"), Opt(Cat(<<ChI("s"), Opt(LitI("day"))>>))>>),
    Cat(<<LitI("wed"), Opt(LitI("nesday"))>>),
    Cat(<<LitI("thu"), Opt(Cat(<<ChI("r"), Opt(LitI("sday"))>>))>>),
    Cat(<<LitI("fri"), Opt(LitI("day"))>>), Cat(<<LitI("sat"), Opt(LitI("urday"))>>),
    Cat(<<LitI("sun"), Opt(LitI("day"))>>)>>), B>>))
\* /\b(?:f[{ouml}o]rra|n[{auml}a]sta|denna|p[{aring}a])\s+(?:m[{aring}a]ndag|tisdag|onsdag|torsdag|fredag|l[{ouml}o]rdag|s[{ouml}o]ndag)\b/gi
weekdaySvRe ==
  G(Cat(<<B, Alt(<<Cat(<<ChI("f"), One(Ci({ouml, "o"})), LitI("rra")>>),
    Cat(<<ChI("n"), One(Ci({auml, "a"})), LitI("sta")>>), LitI("denna"),
    Cat(<<ChI("p"), One(Ci({aring, "a"}))>>)>>), S1,
    Alt(<<Cat(<<ChI("m"), One(Ci({aring, "a"})), LitI("ndag")>>), LitI("tisdag"), LitI("onsdag"),
    LitI("torsdag"), LitI("fredag"), Cat(<<ChI("l"), One(Ci({ouml, "o"})), LitI("rdag")>>),
    Cat(<<ChI("s"), One(Ci({ouml, "o"})), LitI("ndag")>>)>>), B>>))
\* /\b(?:monday|tuesday|wednesday|thursday|friday|saturday|sunday|mon\.?|tue\.?|tues\.?|wed\.?|thu\.?|thur\.?|thurs\.?|fri\.?|sat\.?|sun\.?)\b/gi
weekdayBareRe ==
  G(Cat(<<B, Alt(<<LitI("monday"), LitI("tuesday"), LitI("wednesday"), LitI("thursday"),
    LitI("friday"), LitI("saturday"), LitI("sunday"), Cat(<<LitI("mon"), Opt(Ch("."))>>),
    Cat(<<LitI("tue"), Opt(Ch("."))>>), Cat(<<LitI("tues"), Opt(Ch("."))>>),
    Cat(<<LitI("wed"), Opt(Ch("."))>>), Cat(<<LitI("thu"), Opt(Ch("."))>>),
    Cat(<<LitI("thur"), Opt(Ch("."))>>), Cat(<<LitI("thurs"), Opt(Ch("."))>>),
    Cat(<<LitI("fri"), Opt(Ch("."))>>), Cat(<<LitI("sat"), Opt(Ch("."))>>),
    Cat(<<LitI("sun"), Opt(Ch("."))>>)>>), B>>))
\* /\b(?:m[{aring}a]ndag|tisdag|onsdag|torsdag|fredag|l[{ouml}o]rdag|s[{ouml}o]ndag|m[{aring}a]n\.?|tis\.?|ons\.?|tors\.?|fre\.?|l[{ouml}o]r\.?|s[{ouml}o]n\.?)\b/gi
weekdayBareSvRe ==
  G(Cat(<<B, Alt(<<Cat(<<ChI("m"), One(Ci({aring, "a"})), LitI("ndag")>>), LitI("tisdag"),
    LitI("onsdag"), LitI("torsdag"), LitI("fredag"),
    Cat(<<ChI("l"), One(Ci({ouml, "o"})), LitI("rdag")>>),
    Cat(<<ChI("s"), One(Ci({ouml, "o"})), LitI("ndag")>>),
    Cat(<<ChI("m"), One(Ci({aring, "a"})), ChI("n"), Opt(Ch("."))>>),
    Cat(<<LitI("tis"), Opt(Ch("."))>>), Cat(<<LitI("ons"), Opt(Ch("."))>>),
    Cat(<<LitI("tors"), Opt(Ch("."))>>), Cat(<<LitI("fre"), Opt(Ch("."))>>),
    Cat(<<ChI("l"), One(Ci({ouml, "o"})), ChI("r"), Opt(Ch("."))>>),
    Cat(<<ChI("s"), One(Ci({ouml, "o"})), ChI("n"), Opt(Ch("."))>>)>>), B>>))
\* /\b(?:[1-9]|[12]\d|3[01])(?:st|nd|rd|th)\b/gi
ordinalRe ==
  G(Cat(<<B, Alt(<<One(SetOf("123456789")), Cat(<<One(SetOf("12")), D>>),
    Cat(<<Ch("3"), One(SetOf("01"))>>)>>), Alt(<<LitI("st"), LitI("nd"), LitI("rd"), LitI("th")>>),
    B>>))
\* /\b(?:in\s+\d+\s+(?:day|days|week|weeks|month|months|year|years)|\d+\s+(?:day|days|week|weeks|month|months|year|years)\s+ago)\b/gi
durationRe ==
  G(Cat(<<B, Alt(<<Cat(<<LitI("in"), S1, Plus(D), S1,
    Alt(<<LitI("day"), LitI("days"), LitI("week"), LitI("weeks"), LitI("month"), LitI("months"),
    LitI("year"), LitI("years")>>)>>),
    Cat(<<Plus(D), S1, Alt(<<LitI("day"), LitI("days"), LitI("week"), LitI("weeks"), LitI("month"),
    LitI("months"), LitI("year"), LitI("years")>>), S1, LitI("ago")>>)>>), B>>))
\* /\b(?:om\s+\d+\s+(?:dag|dagar|vecka|veckor|m[{aring}a]nad|m[{aring}a]nader|[{aring}a]r)|f[{ouml}o]r\s+\d+\s+(?:dag|dagar|vecka|veckor|m[{aring}a]nad|m[{aring}a]nader|[{aring}a]r)\s+sedan)\b/gi
durationSvRe ==
  G(Cat(<<B, Alt(<<Cat(<<LitI("om"), S1, Plus(D), S1,
    Alt(<<LitI("dag"), LitI("dagar"), LitI("vecka"), LitI("veckor"),
    Cat(<<ChI("m"), One(Ci({aring, "a"})), LitI("nad")>>),
    Cat(<<ChI("m"), One(Ci({aring, "a"})), LitI("nader")>>),
    Cat(<<One(Ci({aring, "a"})), ChI("r")>>)>>)>>),
    Cat(<<ChI("f"), One(Ci({ouml, "o"})), ChI("r"), S1, Plus(D), S1,
    Alt(<<LitI("dag"), LitI("dagar"), LitI("vecka"), LitI("veckor"),
    Cat(<<ChI("m"), One(Ci({aring, "a"})), LitI("nad")>>),
    Cat(<<ChI("m"), One(Ci({aring, "a"})), LitI("nader")>>),
    Cat(<<One(Ci({aring, "a"})), ChI("r")>>)>>), S1, LitI("sedan")>>)>>), B>>))
\* /\b(?:[1-9]|[12]\d|3[01])(?:st|nd|rd|th)\s+(?:last|next|this)\s+month\b/gi
ordinalRelativeRe ==
  G(Cat(<<B, Alt(<<One(SetOf("123456789")), Cat(<<One(SetOf("12")), D>>),
    Cat(<<Ch("3"), One(SetOf("01"))>>)>>), Alt(<<LitI("st"), LitI("nd"), LitI("rd"), LitI("th")>>),
    S1, Alt(<<LitI("last"), LitI("next"), LitI("this")>>), S1, LitI("month"), B>>))
RECURSIVE FirstOf(_, _)
\* firstRegexMatch(text, r1) || firstRegexMatch(text, r2) || ...
FirstOf(text, res) ==
  IF res = <<>> THEN null ELSE Or(firstRegexMatch(text, Head(res)), FirstOf(text, Tail(res)))
\* the stages of detectTemporalReference, each a || chain, in the order tried
TemporalStages ==
  << <<timeWordsRe, timeOfDayRe, timeRangeRe, timeOfDayBareRe, timeWordsSvRe, timeOfDaySvRe,
       timeOfDayBareSvRe, time24hRe, timeAmPmRe>>,
     <<relativeRe, relativeSvRe>>,
     <<weekdayRe, weekdaySvRe>>,
     <<weekdayBareRe, weekdayBareSvRe>>,
     <<ordinalRe>>,
     <<durationRe, durationSvRe>>,
     <<ordinalRelativeRe>> >>
RECURSIVE TemporalFrom(_, _)
TemporalFrom(text, stages) ==
  IF stages = <<>> THEN null
  ELSE LET t == FirstOf(text, Head(stages))
       IN  IF t # null \/ Len(stages) = 1 THEN t ELSE TemporalFrom(text, Tail(stages))
detectTemporalReference(text) == TemporalFrom(text, TemporalStages)

\* /\b[\p{Lu}][\p{Ll}]+(?:-[\p{Lu}][\p{Ll}]+)?\s+[\p{Lu}][\p{Ll}]+(?:-[\p{Lu}][\p{Ll}]+)?\b/gu
detectFullNames_re ==
  G(Cat(<<B, One(Lu), Plus(One(Ll)), Opt(Cat(<<Ch("-"), One(Lu), Plus(One(Ll))>>)), S1, One(Lu),
    Plus(One(Ll)), Opt(Cat(<<Ch("-"), One(Lu), Plus(One(Ll))>>)), B>>))
detectFullNames(text) == firstRegexMatch(text, detectFullNames_re)

\* /\b[\p{Lu}]\.\s*[\p{Lu}][\p{Ll}]+(?:-[\p{Lu}][\p{Ll}]+)?\b/gu
detectInitialLastName_re ==
  G(Cat(<<B, One(Lu), Ch("."), S0, One(Lu), Plus(One(Ll)),
    Opt(Cat(<<Ch("-"), One(Lu), Plus(One(Ll))>>)), B>>))
detectInitialLastName(text) == firstRegexMatch(text, detectInitialLastName_re)

\* /\b(?:name|patient(?:en)?|pt|namn)\b\s*[:\-]\s*/gi
labelPrefixRe ==
  G(Cat(<<B, Alt(<<LitI("name"), Cat(<<LitI("patient"), Opt(LitI("en"))>>), LitI("pt"),
    LitI("namn")>>), B, S0, One(SetOf(":-")), S0>>))
\* nameRe = /^([\p{L}]{2,})(?:\s+([\p{L}]{2,}))?\b/u, by its parts: group 1
\* and group 2 are both [\p{L}]{2,}
nameRe_group == Rep(One(Letter), 2, Inf)
\* rest.match(nameRe): the captures [w1, w2] of the first way to match in
\* backtracking order (group 2 is "" when the optional part is skipped), or
\* the empty sequence for no match
RECURSIVE nameRe_second(_, _)
nameRe_second(rest, As) ==
  IF As = <<>> THEN <<>>
  ELSE LET es == Ends(Cat(<<nameRe_group, B>>), rest, Head(As))
       IN  IF es # <<>> THEN <<Head(As), Head(es)>> ELSE nameRe_second(rest, Tail(As))
RECURSIVE nameRe_from(_, _)
nameRe_from(rest, E1) ==
  IF E1 = <<>> THEN <<>>
  ELSE LET e1 == Head(E1)
           two == nameRe_second(rest, Ends(S1, rest, e1))
       IN  IF two # <<>>
           THEN << [w1 |-> Slice(rest, 1, e1), w2 |-> Slice(rest, two[1], two[2])] >>
           ELSE IF Ends(B, rest, e1) # <<>>
           THEN << [w1 |-> Slice(rest, 1, e1), w2 |-> <<>>] >>
           ELSE nameRe_from(rest, Tail(E1))
nameRe_match(rest) == nameRe_from(rest, Ends(Cat(<<Bol, nameRe_group>>), rest, 1))
detectNameLabels_notAName ==
  {Chars("patient"), Chars("pt"), Chars("name"), Chars("patienten"), Chars("patient"),
   Chars("namn")}
\* /^[A-Z{Aring}{Auml}{Ouml}]+$/
allCapsRe == Cat(<<Bol, Plus(One(Range(AsciiUpper) \cup {Aring, Auml, Ouml})), Eol>>)
RECURSIVE NameLabelsFrom(_, _)
\* the loop over text.matchAll(labelPrefixRe)
NameLabelsFrom(text, ms) ==
  IF ms = <<>> THEN null
  ELSE LET idx  == Head(ms).end
           rest == trimStart(Slice(text, idx, Len(text) + 1))
           nm   == nameRe_match(rest)
           w1   == IF nm = <<>> THEN <<>> ELSE trim(nm[1].w1)
           w2   == IF nm = <<>> THEN <<>> ELSE trim(nm[1].w2)
           skip == \/ nm = <<>>
                   \/ w1 = <<>>
                   \/ Test(hasDigitRe, w1) \/ (w2 # <<>> /\ Test(hasDigitRe, w2))
                   \/ Test(allCapsRe, w1) \/ (w2 # <<>> /\ Test(allCapsRe, w2))
                   \/ toLowerCase(w1) \in detectNameLabels_notAName
                   \/ (w2 # <<>> /\ toLowerCase(w2) \in detectNameLabels_notAName)
       IN  IF skip THEN NameLabelsFrom(text, Tail(ms))
           ELSE IF w2 # <<>> THEN w1 \o <<" ">> \o w2 ELSE w1
detectNameLabels(text) == NameLabelsFrom(text, matchAll(labelPrefixRe, text, 1))

\* re = /^\s*([\p{L}]{2,}(?:-[\p{L}]{2,})?(?:\s+[\p{L}]{2,}(?:-[\p{L}]{2,})?)?)\s*:\s+\S/u
\* by its parts: group 1, and what follows it
nameTag_token == Cat(<<Rep(One(Letter), 2, Inf), Opt(Cat(<<Ch("-"), Rep(One(Letter), 2, Inf)>>))>>)
nameTag_group == Cat(<<nameTag_token, Opt(Cat(<<S1, nameTag_token>>))>>)
nameTag_tail == Cat(<<S0, Ch(":"), S1, One(NonSpace)>>)
\* line.match(re)[1]: group 1 of the first way to match in backtracking
\* order, or the empty sequence for no match
RECURSIVE nameTag_end(_, _)
nameTag_end(line, Es) ==
  IF Es = <<>> THEN 0
  ELSE IF Ends(nameTag_tail, line, Head(Es)) # <<>> THEN Head(Es)
  ELSE nameTag_end(line, Tail(Es))
RECURSIVE nameTag_from(_, _)
nameTag_from(line, As) ==
  IF As = <<>> THEN <<>>
  ELSE LET e == nameTag_end(line, Ends(nameTag_group, line, Head(As)))
       IN  IF e # 0 THEN << Slice(line, Head(As), e) >> ELSE nameTag_from(line, Tail(As))
nameTag_match(line) == nameTag_from(line, Ends(Cat(<<Bol, S0>>), line, 1))
detectNameTagLines_notAName ==
  {Chars("patient"), Chars("pt"), Chars("name"), Chars("news"), Chars("bp"), Chars("hr"),
   Chars("rr"), Chars("temp"), Chars("spo2"), Chars("sat"), Chars("ecg"), Chars("ekg"),
   Chars("patienten"), Chars("patient"), Chars("namn")}
\* /^[A-Z{Aring}{Auml}{Ouml}\s-]+$/
allCapsTagRe ==
  Cat(<<Bol, Plus(One(Range(AsciiUpper) \cup Space \cup {Aring, Auml, Ouml, "-"})), Eol>>)
RECURSIVE NameTagFrom(_)
\* the loop over the lines
NameTagFrom(lines) ==
  IF lines = <<>> THEN null
  ELSE LET m == nameTag_match(Head(lines))
           candidate == IF m = <<>> THEN <<>> ELSE trim(m[1])
           skip == \/ m = <<>>
                   \/ candidate = <<>>
                   \/ Test(hasDigitRe, candidate)
                   \/ Test(allCapsTagRe, candidate)
                   \/ toLowerCase(candidate) \in detectNameTagLines_notAName
       IN  IF skip THEN NameTagFrom(Tail(lines)) ELSE candidate
detectNameTagLines(text) == NameTagFrom(Split(ReplaceCrLf(text), {"\n"}, FALSE))

\* /^[\p{L}]{2,}(?:-[\p{L}]{2,})?$/u
nameTokenRe ==
  Cat(<<Bol, Rep(One(Letter), 2, Inf), Opt(Cat(<<Ch("-"), Rep(One(Letter), 2, Inf)>>)), Eol>>)
\* a faulty variant of the word list: the word patient is missing
detectNameInProse_notAName_withoutPatient ==
  {Chars("pt"), Chars("name"), Chars("news"), Chars("bp"), Chars("hr"), Chars("rr"),
   Chars("temp"), Chars("spo2"), Chars("sat"), Chars("ecg"), Chars("ekg"), Chars("patienten"),
   Chars("namn")}
detectNameInProse_notAName ==
  {Chars("patient"), Chars("pt"), Chars("name"), Chars("news"), Chars("bp"), Chars("hr"),
   Chars("rr"), Chars("temp"), Chars("spo2"), Chars("sat"), Chars("ecg"), Chars("ekg"),
   Chars("patienten"), Chars("patient"), Chars("namn")}
verbs ==
  {Chars("reports"), Chars("complains"), Chars("states"), Chars("denies"), Chars("presents"),
   Chars("presented"), Chars("arrived"), Chars("comes"), Chars("says"), Chars("feels"),
   Chars("notes"), Chars("admits"), Chars("seeks"), Chars("seeking"), Chars("uppger"),
   Chars("nekar"), Chars("beskriver"), Chars("s") \o <<ouml>> \o Chars("ker"), Chars("kommer"),
   Chars("anger"), Chars("m") \o <<aring>> \o Chars("r")}
\* text.replace(/\r\n/g, "\n").split(/[.!?\n]+/).map((c) => c.trim()).filter(Boolean)
chunksOf(text) ==
  LET pieces == Split(ReplaceCrLf(text), {".", "!", "?", "\n"}, TRUE)
  IN  NonEmpty([k \in DOMAIN pieces |-> trim(pieces[k])])
\* parts[k] ?? ""
PartAt(parts, k) == IF k <= Len(parts) THEN parts[k] ELSE <<>>
RECURSIVE NameInProseFrom(_)
\* the loop over the chunks
NameInProseFrom(chunks) ==
  IF chunks = <<>> THEN null
  ELSE LET parts == NonEmpty(Split(Head(chunks), Space, TRUE))
           t1 == PartAt(parts, 1)
           t2 == PartAt(parts, 2)
           t3 == PartAt(parts, 3)
           one == /\ Test(nameTokenRe, t1)
                  /\ ~Test(hasDigitRe, t1)
                  /\ ~Test(allCapsRe, t1)
                  /\ toLowerCase(t1) \notin detectNameInProse_notAName
                  /\ toLowerCase(t2) \in verbs
           two == /\ Len(parts) >= 3
                  /\ Test(nameTokenRe, t1)
                  /\ toLowerCase(t1) \notin detectNameInProse_notAName
                  /\ Test(nameTokenRe, t2)
                  /\ toLowerCase(t2) \notin detectNameInProse_notAName
                  /\ toLowerCase(t3) \in verbs
       IN  IF Len(parts) < 2 THEN NameInProseFrom(Tail(chunks))
           ELSE IF one THEN t1
           ELSE IF two
                THEN IF \/ Test(hasDigitRe, t1) \/ Test(hasDigitRe, t2)
                        \/ Test(allCapsRe, t1) \/ Test(allCapsRe, t2)
                     THEN NameInProseFrom(Tail(chunks))
                     ELSE t1 \o <<" ">> \o t2
           ELSE NameInProseFrom(Tail(chunks))
detectNameInProse(text) == NameInProseFrom(chunksOf(text))

\* /\b[A-Z0-9._%+-]+@[A-Z0-9.-]+\.[A-Z]{2,}\b/gi
detectEmail_re ==
  G(Cat(<<B, Plus(One(Ci(Range(AsciiUpper) \cup Digit \cup SetOf("._%+-")))), Ch("@"),
    Plus(One(Ci(Range(AsciiUpper) \cup Digit \cup SetOf(".-")))), Ch("."),
    Rep(One(Ci(Range(AsciiUpper))), 2, Inf), B>>))
detectEmail(text) == firstRegexMatch(text, detectEmail_re)

\* /\b(?:\+?46|0)?(?:[\s-]?\d){7,}\b/g
candidateRe ==
  G(Cat(<<B, Opt(Alt(<<Cat(<<Opt(Ch("+")), Lit("46")>>), Ch("0")>>)),
    Rep(Cat(<<Opt(One(Space \cup {"-"})), D>>), 7, Inf), B>>))
\* /^\s*(?:\d{2}|\d{4})(?:0[1-9]|1[0-2])(?:0[1-9]|[12]\d|3[01])[-+]\d{4}\s*$/
personnummerLikeRe ==
  Cat(<<Bol, S0, Alt(<<Rep(D, 2, 2), Rep(D, 4, 4)>>),
    Alt(<<Cat(<<Ch("0"), One(SetOf("123456789"))>>), Cat(<<Ch("1"), One(SetOf("012"))>>)>>),
    Alt(<<Cat(<<Ch("0"), One(SetOf("123456789"))>>), Cat(<<One(SetOf("12")), D>>),
    Cat(<<Ch("3"), One(SetOf("01"))>>)>>), One(SetOf("-+")), Rep(D, 4, 4), S0, Eol>>)
RECURSIVE PhoneFrom(_, _)
\* the loop over text.matchAll(candidateRe)
PhoneFrom(text, ms) ==
  IF ms = <<>> THEN null
  ELSE LET raw == Hit(text, Head(ms))
       IN  IF raw = <<>> \/ Test(personnummerLikeRe, raw) THEN PhoneFrom(text, Tail(ms)) ELSE raw
detectPhoneNumber(text) == PhoneFrom(text, matchAll(candidateRe, text, 1))

\* /\b(?:patient(?:\s*[-]?\s*)?(?:id|nr|no)|journal(?:nummer|nr)?|journ(?:\s*[-]?\s*)?(?:id|nr)|mrn|pid)\b\s*[:#]?\s*[A-Z0-9][A-Z0-9-]{2,}\b/gi
detectPatientIdOrJournalNumber_re ==
  G(Cat(<<B, Alt(<<Cat(<<LitI("patient"), Opt(Cat(<<S0, Opt(One({"-"})), S0>>)),
    Alt(<<LitI("id"), LitI("nr"), LitI("no")>>)>>),
    Cat(<<LitI("journal"), Opt(Alt(<<LitI("nummer"), LitI("nr")>>))>>),
    Cat(<<LitI("journ"), Opt(Cat(<<S0, Opt(One({"-"})), S0>>)), Alt(<<LitI("id"), LitI("nr")>>)>>),
    LitI("mrn"), LitI("pid")>>), B, S0, Opt(One(SetOf(":#"))), S0,
    One(Ci(Range(AsciiUpper) \cup Digit)),
    Rep(One(Ci(Range(AsciiUpper) \cup Digit \cup {"-"})), 2, Inf), B>>))
detectPatientIdOrJournalNumber(text) == firstRegexMatch(text, detectPatientIdOrJournalNumber_re)

\* /\b[\p{L}][\p{L}.-]{1,40}(?:gatan|v{auml}gen|v[a{auml}]g|gr{auml}nd|all[e{eacute}]n|gata)\s+\d{1,4}[A-Z]?\b/giu
streetSuffixRe ==
  G(Cat(<<B, One(Letter), Rep(One(Letter \cup SetOf(".-")), 1, 40),
    Alt(<<LitI("gatan"), Cat(<<ChI("v"), ChI(auml), LitI("gen")>>),
    Cat(<<ChI("v"), One(Ci({"a", auml})), ChI("g")>>), Cat(<<LitI("gr"), ChI(auml), LitI("nd")>>),
    Cat(<<LitI("all"), One(Ci({"e", eacute})), ChI("n")>>), LitI("gata")>>), S1, Rep(D, 1, 4),
    Opt(One(Ci(Range(AsciiUpper)))), B>>))
\* /\b[\p{L}][\p{L}\s.-]{1,40}\s+(?:street|st\.?|road|rd\.?|avenue|ave\.?)\s+\d{1,4}[A-Z]?\b/giu
streetWordRe ==
  G(Cat(<<B, One(Letter), Rep(One(Letter \cup Space \cup SetOf(".-")), 1, 40), S1,
    Alt(<<LitI("street"), Cat(<<LitI("st"), Opt(Ch("."))>>), LitI("road"),
    Cat(<<LitI("rd"), Opt(Ch("."))>>), LitI("avenue"), Cat(<<LitI("ave"), Opt(Ch("."))>>)>>), S1,
    Rep(D, 1, 4), Opt(One(Ci(Range(AsciiUpper)))), B>>))
\* /\b(?:box|p\.?\s*o\.?\s*box)\s+\d{1,6}\b/gi
boxRe ==
  G(Cat(<<B, Alt(<<LitI("box"),
    Cat(<<ChI("p"), Opt(Ch(".")), S0, ChI("o"), Opt(Ch(".")), S0, LitI("box")>>)>>), S1,
    Rep(D, 1, 6), B>>))
detectAddress(text) ==
  Or(firstRegexMatch(text, streetSuffixRe),
     Or(firstRegexMatch(text, streetWordRe), firstRegexMatch(text, boxRe)))

\* /\b(?:avd(?:elning)?|ward|unit)\s*#?\s*\d{1,3}[\s,;:-]{0,20}(?:s[a{auml}]ng|bed|plats)\s*#?\s*\d{1,3}[\s,;:-]{0,40}(?:kl\.?|at)?\s*(?:[01]\d|2[0-3]):[0-5]\d\b/gi
detectWardBedTimestampCombo_re ==
  G(Cat(<<B, Alt(<<Cat(<<LitI("avd"), Opt(LitI("elning"))>>), LitI("ward"), LitI("unit")>>), S0,
    Opt(Ch("#")), S0, Rep(D, 1, 3), Rep(One(Space \cup SetOf(",;:-")), 0, 20),
    Alt(<<Cat(<<ChI("s"), One(Ci({"a", auml})), LitI("ng")>>), LitI("bed"), LitI("plats")>>), S0,
    Opt(Ch("#")), S0, Rep(D, 1, 3), Rep(One(Space \cup SetOf(",;:-")), 0, 40),
    Opt(Alt(<<Cat(<<LitI("kl"), Opt(Ch("."))>>), LitI("at")>>)), S0,
    Alt(<<Cat(<<One(SetOf("01")), D>>), Cat(<<Ch("2"), One(SetOf("0123"))>>)>>), Ch(":"),
    One(SetOf("012345")), D, B>>))
detectWardBedTimestampCombo(text) == firstRegexMatch(text, detectWardBedTimestampCombo_re)

\* /\b(?:\d{2})\s*'?s\b/gi
decadeRe == G(Cat(<<B, Rep(D, 2, 2), S0, Opt(Ch("'")), ChI("s"), B>>))
\* /\b(?:\d{2})\s*[-{ndash}]?\s*{aring}rs{aring}ldern\b/gi
decadeSvRe ==
  G(Cat(<<B, Rep(D, 2, 2), S0, Opt(One({"-", ndash})), S0, ChI(aring), LitI("rs"), ChI(aring),
    LitI("ldern"), B>>))
\* /\b(?:\d{1,2})\s*(?:-|{ndash}|to)\s*(?:\d{1,2})\b/gi
rangeRe ==
  G(Cat(<<B, Rep(D, 1, 2), S0, Alt(<<Ch("-"), ChI(ndash), LitI("to")>>), S0, Rep(D, 1, 2), B>>))
\* /\b(?:\d{1,2})\s*(?:-|{ndash}|to)\s*(?:\d{1,2})\s*(?:y\/o|yo|yrs?\s*old\b|years?\s*old\b|year[-\s]?old\b)\b/gi
rangeWithAgeUnitEnRe ==
  G(Cat(<<B, Rep(D, 1, 2), S0, Alt(<<Ch("-"), ChI(ndash), LitI("to")>>), S0, Rep(D, 1, 2), S0,
    Alt(<<LitI("y/o"), LitI("yo"), Cat(<<LitI("yr"), Opt(ChI("s")), S0, LitI("old"), B>>),
    Cat(<<LitI("year"), Opt(ChI("s")), S0, LitI("old"), B>>),
    Cat(<<LitI("year"), Opt(One(Space \cup {"-"})), LitI("old"), B>>)>>), B>>))
\* /\b(?:\d{1,2})\s*(?:-|{ndash}|to)\s*(?:\d{1,2})\s*(?:{aring}rig\b|{aring}r\b(?:\s*gammal\b)?)\b/gi
rangeWithAgeUnitSvRe ==
  G(Cat(<<B, Rep(D, 1, 2), S0, Alt(<<Ch("-"), ChI(ndash), LitI("to")>>), S0, Rep(D, 1, 2), S0,
    Alt(<<Cat(<<ChI(aring), LitI("rig"), B>>),
    Cat(<<ChI(aring), ChI("r"), B, Opt(Cat(<<S0, LitI("gammal"), B>>))>>)>>), B>>))
\* the hits of one pattern as spans (addAllowed keeps the non-empty ones)
RECURSIVE NonEmptyMatches(_)
NonEmptyMatches(ms) ==
  IF ms = <<>> THEN <<>>
  ELSE (IF Head(ms).end > Head(ms).start THEN <<Head(ms)>> ELSE <<>>) \o NonEmptyMatches(Tail(ms))
addAllowed(text, re) == NonEmptyMatches(matchAll(re, text, 1))
allowedSpans(text) ==
  addAllowed(text, decadeRe) \o addAllowed(text, decadeSvRe) \o addAllowed(text, rangeRe)
    \o addAllowed(text, rangeWithAgeUnitEnRe) \o addAllowed(text, rangeWithAgeUnitSvRe)
\* a faulty variant: an allowed span that only overlaps the match suppresses it
isWithinAllowed_overlap(spans, start, end) ==
  \E k \in DOMAIN spans : start < spans[k].end /\ end > spans[k].start
isWithinAllowed(spans, start, end) ==
  \E k \in DOMAIN spans : start >= spans[k].start /\ end <= spans[k].end
\* /\b(?:[1-9]\d)\s*(?:y\/o|yo|yrs?\s*old\b|years?\s*old\b|year[-\s]?old\b)\b/gi
enPreciseRe ==
  G(Cat(<<B, Cat(<<One(SetOf("123456789")), D>>), S0,
    Alt(<<LitI("y/o"), LitI("yo"), Cat(<<LitI("yr"), Opt(ChI("s")), S0, LitI("old"), B>>),
    Cat(<<LitI("year"), Opt(ChI("s")), S0, LitI("old"), B>>),
    Cat(<<LitI("year"), Opt(One(Space \cup {"-"})), LitI("old"), B>>)>>), B>>))
\* /\b(?:age|aged)\s*[:\-]?\s*(?:[1-9]\d)(?:\s*(?:-|{ndash}|to)\s*(?:[1-9]\d))?\b/gi
enAgeLabelRe ==
  G(Cat(<<B, Alt(<<LitI("age"), LitI("aged")>>), S0, Opt(One(SetOf(":-"))), S0,
    Cat(<<One(SetOf("123456789")), D>>),
    Opt(Cat(<<S0, Alt(<<Ch("-"), ChI(ndash), LitI("to")>>), S0,
    Cat(<<One(SetOf("123456789")), D>>)>>)), B>>))
\* /\b(?:[1-9]\d)\s*(?:[-{ndash}]\s*)?(?:{aring}rig\b|{aring}r\b(?:\s*gammal\b)?)\b/gi
svPreciseRe ==
  G(Cat(<<B, Cat(<<One(SetOf("123456789")), D>>), S0, Opt(Cat(<<One({"-", ndash}), S0>>)),
    Alt(<<Cat(<<ChI(aring), LitI("rig"), B>>),
    Cat(<<ChI(aring), ChI("r"), B, Opt(Cat(<<S0, LitI("gammal"), B>>))>>)>>), B>>))
\* /\b(?:{aring}lder)\s*[:\-]?\s*(?:[1-9]\d)(?:\s*(?:-|{ndash}|to)\s*(?:[1-9]\d))?\b/gi
svAgeLabelRe ==
  G(Cat(<<B, Cat(<<ChI(aring), LitI("lder")>>), S0, Opt(One(SetOf(":-"))), S0,
    Cat(<<One(SetOf("123456789")), D>>),
    Opt(Cat(<<S0, Alt(<<Ch("-"), ChI(ndash), LitI("to")>>), S0,
    Cat(<<One(SetOf("123456789")), D>>)>>)), B>>))
\* a faulty variant of ageSexRe: a one-digit age is accepted too
ageSexRe_oneDigit == G(Cat(<<B, Cat(<<One(SetOf("123456789")), Opt(D)>>), S0, One(SetOf("MF")), B>>))
\* /\b(?:[1-9]\d)\s*(?:[MF])\b/g
ageSexRe == G(Cat(<<B, Cat(<<One(SetOf("123456789")), D>>), S0, One(SetOf("MF")), B>>))
\* /(?:-|{ndash}|to)/i
rangeTokenRe == Alt(<<Ch("-"), ChI(ndash), LitI("to")>>)
candidates ==
  << [re |-> enPreciseRe, canBeRange |-> FALSE],
     [re |-> enAgeLabelRe, canBeRange |-> TRUE],
     [re |-> svPreciseRe, canBeRange |-> FALSE],
     [re |-> svAgeLabelRe, canBeRange |-> TRUE],
     [re |-> ageSexRe, canBeRange |-> FALSE] >>
RECURSIVE AgeHitsFrom(_, _, _, _)
\* the inner loop over text.matchAll(re): the first hit that is kept
AgeHitsFrom(text, spans, ms, canBeRange) ==
  IF ms = <<>> THEN null
  ELSE LET m == Head(ms)
           hit == Hit(text, m)
       IN  IF \/ hit = <<>>
              \/ isWithinAllowed(spans, m.start, m.end)
              \/ (canBeRange /\ Test(rangeTokenRe, hit))
           THEN AgeHitsFrom(text, spans, Tail(ms), canBeRange)
           ELSE hit
RECURSIVE AgeFrom(_, _, _)
\* the outer loop over the candidate patterns
AgeFrom(text, spans, cs) ==
  IF cs = <<>> THEN null
  ELSE LET hit == AgeHitsFrom(text, spans, matchAll(Head(cs).re, text, 1), Head(cs).canBeRange)
       IN  IF hit # null THEN hit ELSE AgeFrom(text, spans, Tail(cs))
detectPreciseAge(text) == AgeFrom(text, allowedSpans(text), candidates)

\* the expressions handed to String.prototype.matchAll, by firstRegexMatch or
\* directly; matchAll throws a TypeError for an expression without /g
matchAllRegexes ==
  <<detectSwedishPersonalNumber_re, isoLikeRe, dmyRe, mdyRe, monthRe, timeWordsRe, timeOfDayRe,
    timeRangeRe, timeOfDayBareRe, timeWordsSvRe, timeOfDaySvRe, timeOfDayBareSvRe, time24hRe,
    timeAmPmRe, relativeRe, relativeSvRe, weekdayRe, weekdaySvRe, weekdayBareRe, weekdayBareSvRe,
    ordinalRe, durationRe, durationSvRe, ordinalRelativeRe, detectFullNames_re,
    detectInitialLastName_re, labelPrefixRe, detectEmail_re, candidateRe,
    detectPatientIdOrJournalNumber_re, streetSuffixRe, streetWordRe, boxRe,
    detectWardBedTimestampCombo_re, decadeRe, decadeSvRe, rangeRe, rangeWithAgeUnitEnRe,
    rangeWithAgeUnitSvRe, enPreciseRe, enAgeLabelRe, svPreciseRe, svAgeLabelRe, ageSexRe>>
matchAllThrows == \E k \in DOMAIN matchAllRegexes : ~global(matchAllRegexes[k])

(* ------------------- the earlier, three-reason detector ------------------ *)
\* /\b(19|20)\d{2}(0[1-9]|1[0-2])(0[1-9]|[12]\d|3[01])-\d{4}\b/g
strictPersonalNumberRe ==
  G(Cat(<<B, Alt(<<Lit("19"), Lit("20")>>), Rep(D, 2, 2),
    Alt(<<Cat(<<Ch("0"), One(SetOf("123456789"))>>), Cat(<<Ch("1"), One(SetOf("012"))>>)>>),
    Alt(<<Cat(<<Ch("0"), One(SetOf("123456789"))>>), Cat(<<One(SetOf("12")), D>>),
    Cat(<<Ch("3"), One(SetOf("01"))>>)>>), Ch("-"), Rep(D, 4, 4), B>>))
\* /\b(19|20)\d{2}[-/](0?[1-9]|1[0-2])[-/](0?[1-9]|[12]\d|3[01])\b/g
detectDates_pattern1 ==
  G(Cat(<<B, Alt(<<Lit("19"), Lit("20")>>), Rep(D, 2, 2), One(SetOf("-/")),
    Alt(<<Cat(<<Opt(Ch("0")), One(SetOf("123456789"))>>), Cat(<<Ch("1"), One(SetOf("012"))>>)>>),
    One(SetOf("-/")), Alt(<<Cat(<<Opt(Ch("0")), One(SetOf("123456789"))>>),
    Cat(<<One(SetOf("12")), D>>), Cat(<<Ch("3"), One(SetOf("01"))>>)>>), B>>))
\* /\b(0?[1-9]|[12]\d|3[01])[-/](0?[1-9]|1[0-2])[-/](\d{2}|\d{4})\b/g
detectDates_pattern2 ==
  G(Cat(<<B, Alt(<<Cat(<<Opt(Ch("0")), One(SetOf("123456789"))>>), Cat(<<One(SetOf("12")), D>>),
    Cat(<<Ch("3"), One(SetOf("01"))>>)>>), One(SetOf("-/")),
    Alt(<<Cat(<<Opt(Ch("0")), One(SetOf("123456789"))>>), Cat(<<Ch("1"), One(SetOf("012"))>>)>>),
    One(SetOf("-/")), Alt(<<Rep(D, 2, 2), Rep(D, 4, 4)>>), B>>))
\* /\b(0?[1-9]|[12]\d|3[01])\s+(jan(?:uary)?|feb(?:ruary)?|mar(?:ch)?|apr(?:il)?|may|jun(?:e)?|jul(?:y)?|aug(?:ust)?|sep(?:t(?:ember)?)?|oct(?:ober)?|nov(?:ember)?|dec(?:ember)?)\s+(\d{2}|\d{4})\b/gi
detectDates_pattern3 ==
  G(Cat(<<B, Alt(<<Cat(<<Opt(Ch("0")), One(SetOf("123456789"))>>), Cat(<<One(SetOf("12")), D>>),
    Cat(<<Ch("3"), One(SetOf("01"))>>)>>), S1,
    Alt(<<Cat(<<LitI("jan"), Opt(LitI("uary"))>>), Cat(<<LitI("feb"), Opt(LitI("ruary"))>>),
    Cat(<<LitI("mar"), Opt(LitI("ch"))>>), Cat(<<LitI("apr"), Opt(LitI("il"))>>), LitI("may"),
    Cat(<<LitI("jun"), Opt(ChI("e"))>>), Cat(<<LitI("jul"), Opt(ChI("y"))>>),
    Cat(<<LitI("aug"), Opt(LitI("ust"))>>),
    Cat(<<LitI("sep"), Opt(Cat(<<ChI("t"), Opt(LitI("ember"))>>))>>),
    Cat(<<LitI("oct"), Opt(LitI("ober"))>>), Cat(<<LitI("nov"), Opt(LitI("ember"))>>),
    Cat(<<LitI("dec"), Opt(LitI("ember"))>>)>>), S1, Alt(<<Rep(D, 2, 2), Rep(D, 4, 4)>>), B>>))
\* /\b(jan(?:uary)?|feb(?:ruary)?|mar(?:ch)?|apr(?:il)?|may|jun(?:e)?|jul(?:y)?|aug(?:ust)?|sep(?:t(?:ember)?)?|oct(?:ober)?|nov(?:ember)?|dec(?:ember)?)\s+(0?[1-9]|[12]\d|3[01])(?:,)?\s+(\d{2}|\d{4})\b/gi
detectDates_pattern4 ==
  G(Cat(<<B, Alt(<<Cat(<<LitI("jan"), Opt(LitI("uary"))>>),
    Cat(<<LitI("feb"), Opt(LitI("ruary"))>>), Cat(<<LitI("mar"), Opt(LitI("ch"))>>),
    Cat(<<LitI("apr"), Opt(LitI("il"))>>), LitI("may"), Cat(<<LitI("jun"), Opt(ChI("e"))>>),
    Cat(<<LitI("jul"), Opt(ChI("y"))>>), Cat(<<LitI("aug"), Opt(LitI("ust"))>>),
    Cat(<<LitI("sep"), Opt(Cat(<<ChI("t"), Opt(LitI("ember"))>>))>>),
    Cat(<<LitI("oct"), Opt(LitI("ober"))>>), Cat(<<LitI("nov"), Opt(LitI("ember"))>>),
    Cat(<<LitI("dec"), Opt(LitI("ember"))>>)>>), S1,
    Alt(<<Cat(<<Opt(Ch("0")), One(SetOf("123456789"))>>), Cat(<<One(SetOf("12")), D>>),
    Cat(<<Ch("3"), One(SetOf("01"))>>)>>), Opt(Ch(",")), S1, Alt(<<Rep(D, 2, 2), Rep(D, 4, 4)>>),
    B>>))
\* /\b[\p{Lu}][\p{L}]+(?:-[\p{Lu}][\p{L}]+)?\s+[\p{Lu}][\p{L}]+(?:-[\p{Lu}][\p{L}]+)?(?:\s+[\p{Lu}][\p{L}]+)?\b/gu
strictFullNamesRe ==
  G(Cat(<<B, One(Lu), Plus(One(Letter)), Opt(Cat(<<Ch("-"), One(Lu), Plus(One(Letter))>>)), S1,
    One(Lu), Plus(One(Letter)), Opt(Cat(<<Ch("-"), One(Lu), Plus(One(Letter))>>)),
    Opt(Cat(<<S1, One(Lu), Plus(One(Letter))>>)), B>>))

(* ------------------------------ orchestrator ---------------------------- *)
\* the calls of push, in the order of the source
Detections(text) ==
  << [reason |-> "swedish_personal_number", match |-> detectSwedishPersonalNumber(text)],
     [reason |-> "date", match |-> detectDate(text)],
     [reason |-> "temporal_reference", match |-> detectTemporalReference(text)],
     [reason |-> "precise_age", match |-> detectPreciseAge(text)],
     [reason |-> "full_name", match |-> detectFullNames(text)],
     [reason |-> "initial_last_name", match |-> detectInitialLastName(text)],
     [reason |-> "name_label", match |-> detectNameLabels(text)],
     [reason |-> "name_tag", match |-> detectNameTagLines(text)],
     [reason |-> "name_in_prose", match |-> detectNameInProse(text)],
     [reason |-> "patient_id_or_journal_number", match |-> detectPatientIdOrJournalNumber(text)],
     [reason |-> "email", match |-> detectEmail(text)],
     [reason |-> "phone_number", match |-> detectPhoneNumber(text)],
     [reason |-> "address", match |-> detectAddress(text)],
     [reason |-> "ward_bed_timestamp", match |-> detectWardBedTimestampCombo(text)] >>
IdentifierReason == {Detections(<<>>)[k].reason : k \in 1..14}

\* the two arrays a call of detectIdentifiers fills
NewArrays == [reasons |-> <<>>, matches |-> <<>>]
\* a faulty variant of push: the match is recorded without its reason
push_withoutReason(acc, reason, match) ==
  IF match = null THEN acc
  ELSE [reasons |-> acc.reasons,
        matches |-> Append(acc.matches, [reason |-> reason, match |-> match])]
\* a faulty variant of push: an entry is added whatever the detector returned
push_unconditional(acc, reason, match) ==
  [reasons |-> Append(acc.reasons, reason),
   matches |-> Append(acc.matches, [reason |-> reason, match |-> match])]
push(acc, reason, match) ==
  IF match = null THEN acc
  ELSE [reasons |-> Append(acc.reasons, reason),
        matches |-> Append(acc.matches, [reason |-> reason, match |-> match])]
RECURSIVE PushAll(_, _)
PushAll(acc, ds) ==
  IF ds = <<>> THEN acc ELSE PushAll(push(acc, Head(ds).reason, Head(ds).match), Tail(ds))
RECURSIVE uniq(_)
\* Array.from(new Set(arr)): the first occurrence of each element, in order
uniq(arr) ==
  IF arr = <<>> THEN <<>>
  ELSE LET init == uniq(SubSeq(arr, 1, Len(arr) - 1))
           last == arr[Len(arr)]
       IN  IF last \in Range(init) THEN init ELSE Append(init, last)
\* a faulty variant of KeyOf: the reason is left out of the key
KeyOf_matchOnly(m) == m.match
\* the key of the loop that fills uniqueMatches: `${m.reason}::${m.match}`
KeyOf(m) == Chars(m.reason) \o <<":", ":">> \o m.match
RECURSIVE UniqueMatchesFrom(_, _, _)
UniqueMatchesFrom(ms, seen, out) ==
  IF ms = <<>> THEN out
  ELSE IF KeyOf(Head(ms)) \in seen THEN UniqueMatchesFrom(Tail(ms), seen, out)
  ELSE UniqueMatchesFrom(Tail(ms), seen \cup {KeyOf(Head(ms))}, Append(out, Head(ms)))
uniqueMatchesOf(matches) == UniqueMatchesFrom(matches, {}, <<>>)
\* a faulty variant of Returned: one reason alone does not set hasIdentifiers
Returned_moreThanOne(acc) ==
  LET unique == uniq(acc.reasons)
  IN  [hasIdentifiers |-> Len(unique) > 1, reasons |-> unique, matches |-> uniqueMatchesOf(acc.matches)]
\* what detectIdentifiers returns from the arrays it has filled
Returned(acc) ==
  LET unique == uniq(acc.reasons)
  IN  [hasIdentifiers |-> Len(unique) > 0, reasons |-> unique, matches |-> uniqueMatchesOf(acc.matches)]
detectIdentifiers(text) == Returned(PushAll(NewArrays, Detections(text)))

(* ------------------- the earlier, three-reason detector ------------------ *)
\* re.test(text) on a regex literal evaluated by the call: lastIndex is 0
detectSwedishPersonalNumber3(text) == Test(strictPersonalNumberRe, text)
detectDates_patterns == <<detectDates_pattern1, detectDates_pattern2, detectDates_pattern3, detectDates_pattern4>>
detectDates(text) == \E k \in 1..4 : Test(detectDates_patterns[k], text)
detectFullNames3(text) == Test(strictFullNamesRe, text)
\* the three-reason detectIdentifiers
detectIdentifiers3(text) ==
  LET r1 == IF detectSwedishPersonalNumber3(text) THEN <<"swedish_personal_number">> ELSE <<>>
      r2 == IF detectDates(text) THEN Append(r1, "date") ELSE r1
      reasons == IF detectFullNames3(text) THEN Append(r2, "full_name") ELSE r2
      unique == uniq(reasons)
  IN  [hasIdentifiers |-> Len(unique) > 0, reasons |-> unique]

(* ------------------------- POST /api/soap handler ----------------------- *)
MAX_CHARS == 20000

\* a value that may be absent: None, or Some(x), read back with The
None == <<>>
Some(x) == <<x>>
The(o) == o[1]

\* a request body: not JSON at all, or an object whose text is a string
\* (Some) or something else (None), and whose language is "en" or not
InvalidJson == [json |-> FALSE, text |-> None, language |-> ""]
Payload(t, language) == [json |-> TRUE, text |-> t, language |-> language]

\* the outcome of the upstream call: a completion, or a thrown error with
\* the fields the handler reads (0 and "" stand for an absent field)
Completion == [ok |-> TRUE]
UpstreamError(status, code, type) == [ok |-> FALSE, status |-> status, code |-> code, type |-> type]

\* json(body, {status}): the status and, of the body, the errorKey, the
\* reasons, the detected matches ("" and <<>> for an absent field) and whether
\* it has a debug field
Response(status, key, reasons, detected) ==
  [status |-> status, errorKey |-> key, reasons |-> reasons, detected |-> detected,
   debug |-> FALSE]
\* ...(debug ? { debug } : {}) with debug defined when NODE_ENV is development
WithDebug(resp, env) == [resp EXCEPT !.debug = (env = "development")]
\* a faulty variant of the catch block: the upstream status is passed on
FailureResponse_passStatus(err, env) ==
  WithDebug(Response(IF err.status = 0 THEN 502 ELSE err.status, "upstream_failed", <<>>, <<>>), env)
\* the catch block of the upstream call
FailureResponse(err, env) ==
  WithDebug(
    IF err.status = 429
    THEN Response(429, IF err.code = "insufficient_quota" \/ err.type = "insufficient_quota"
                       THEN "insufficient_quota" ELSE "rate_limited", <<>>, <<>>)
    ELSE IF err.status = 401 \/ err.status = 403
    THEN Response(401, "auth_failed", <<>>, <<>>)
    ELSE Response(502, "upstream_failed", <<>>, <<>>), env)
\* the catch block of the upstream call in app/api/soap/route.ts: the error
\* is not looked at and the body has an error message only
FailureResponseRoute == Response(502, "", <<>>, <<>>)
\* a faulty variant of UserText: the text is trimmed before it is sent
UserText_trimmed(t) == trim(t)
\* the text of the request in the user message, after the instruction and
\* the separator: `${text}`, { type: "input_text", text }
UserText(t) == t
\* typeof obj?.text === "string" ? obj.text : ""
TextOf(b) == IF b.json /\ b.text # None THEN The(b.text) ELSE <<>>
\* obj?.language === "en" ? "en" : "sv"
LanguageOf(b) == IF b.json /\ b.language = "en" THEN "en" ELSE "sv"
\* a faulty variant of IsBlank: the text is not trimmed
IsBlank_emptyOnly(t) == t = <<>>
\* !text.trim(): nothing is left of the text once its whitespace is trimmed
IsBlank(t) == \A k \in DOMAIN t : t[k] \in Space
\* text.length > MAX_CHARS
TooLong(t) == Len(t) > MAX_CHARS
\* a faulty variant of EarlyResponse: the size is checked before the blank text
EarlyResponse_sizeFirst(b) ==
  IF ~b.json THEN Some(Response(400, "invalid_json", <<>>, <<>>))
  ELSE IF TooLong(TextOf(b)) THEN Some(Response(413, "text_too_long", <<>>, <<>>))
  ELSE IF IsBlank(TextOf(b)) THEN Some(Response(400, "text_required", <<>>, <<>>))
  ELSE None
\* the response of the checks that precede detection, in their order, or
\* None for a body that passes them
EarlyResponse(b) ==
  IF ~b.json THEN Some(Response(400, "invalid_json", <<>>, <<>>))
  ELSE IF IsBlank(TextOf(b)) THEN Some(Response(400, "text_required", <<>>, <<>>))
  ELSE IF TooLong(TextOf(b)) THEN Some(Response(413, "text_too_long", <<>>, <<>>))
  ELSE None
\* the checks that precede detection in app/api/soap/route.ts: the same
\* checks in the same order, the bodies without errorKey
EarlyResponseRoute(b) ==
  IF ~b.json THEN Some(Response(400, "", <<>>, <<>>))
  ELSE IF IsBlank(TextOf(b)) THEN Some(Response(400, "", <<>>, <<>>))
  ELSE IF TooLong(TextOf(b)) THEN Some(Response(413, "", <<>>, <<>>))
  ELSE None

(* ------------------------------ the state ------------------------------- *)
VARIABLES
  \* the handler, per request
  pc,         \* "idle", "json" (awaiting req.json()), "upstream" (awaiting the completion), "done"
  body,       \* the request body
  detection,  \* the result of detectIdentifiers for the request, or None
  client,     \* whether getOpenAIClient() was called for the request
  sent,       \* the text sent upstream for the request, or None
  response,   \* the response of the request, or None
  arrays,     \* the reasons and matches arrays of the latest detectIdentifiers call
  caught,        \* the error the catch block of the request caught, or None
  version,    \* which of the two POST handlers of the sources serves the requests
  nodeEnv,    \* process.env.NODE_ENV
  \* one call of detectIdentifiers on its own
  note,       \* its argument
  result,     \* its result, or None
  padded,     \* the text with whitespace inserted before a reported match, or None
  paddedResult, \* the result for padded, or None
  thrown,     \* whether a call of detectIdentifiers on its own threw
  result3,    \* the result of the three-reason detectIdentifiers for note, or None
  \* the page: the state of the component as last rendered
  lang,         \* the UI language
  textInput,    \* the text of the textarea (the state text)
  confirmed,    \* the confirmation box
  isSubmitting,
  soapByLang,   \* the stored note of each language
  debug,
  serverError,
  errorKey,     \* "null" for null
  flights,      \* the calls of onSubmit that have not returned, in the order started
  settled       \* the last call of onSubmit that returned, or None
hvars == <<pc, body, detection, client, sent, response, arrays, caught, version, nodeEnv>>
dvars == <<note, result, padded, paddedResult, thrown, result3>>
uvars == <<lang, textInput, confirmed, isSubmitting, soapByLang, debug, serverError, errorKey, flights, settled>>
vars == <<pc, body, detection, client, sent, response, arrays, caught, version, nodeEnv, note, result, padded, paddedResult, thrown, result3,
          lang, textInput, confirmed, isSubmitting, soapByLang, debug, serverError, errorKey, flights, settled>>

\* the number of requests in flight at once
NumRequests == 2
Req == 1..NumRequests

\* the longest run of whitespace the inputs are padded or joined with
MaxPad == 2
Blank == {" ", "\t", "\n"}
RECURSIVE Copies(_, _)
Copies(c, n) == IF n = 0 THEN <<>> ELSE <<c>> \o Copies(c, n - 1)
\* the runs of one whitespace character, of length 1..MaxPad
Pads == {Copies(c, n) : c \in Blank, n \in 1..MaxPad}

(* ------------------------------ the handler ----------------------------- *)
CleanText == Chars("Patient reports chest pain, vitals stable, no acute distress.")
LongText == [k \in 1..(MAX_CHARS + 1) |-> "a"]
LongBlank == [k \in 1..(MAX_CHARS + 1) |-> " "]
RequestTexts ==
  {<<>>, Chars("  "), CleanText, Chars("no fever"), Chars("  stable \n"), Chars("age 47"),
   Chars("Anna Berg a@b.se"), LongText, LongBlank}
Languages == {"en", "sv"}
\* type UiLang = "sv" | "en"
UiLang == {"sv", "en"}
Bodies ==
  {InvalidJson} \cup {Payload(None, l) : l \in Languages}
    \cup {Payload(Some(t), l) : t \in RequestTexts, l \in Languages}
\* Detections(t) for the request texts short enough to reach the detector,
\* evaluated once
ReachDetector == {t \in RequestTexts : Len(t) <= MAX_CHARS}
DetectionsOf ==
  LET RECURSIVE Table(_)
      Table(ts) == IF ts = {} THEN <<>>
                   ELSE LET t == CHOOSE x \in ts : TRUE IN (t :> Detections(t)) @@ Table(ts \ {t})
  IN  Table(ReachDetector)
\* EarlyResponse(b) for the request bodies, evaluated once
EarlyResponseOf ==
  LET RECURSIVE Table(_)
      Table(bs) == IF bs = {} THEN <<>>
                   ELSE LET b == CHOOSE x \in bs : TRUE IN (b :> EarlyResponse(b)) @@ Table(bs \ {b})
  IN  Table(Bodies)
\* EarlyResponseRoute(b) for the request bodies, evaluated once
EarlyResponseRouteOf ==
  LET RECURSIVE Table(_)
      Table(bs) == IF bs = {} THEN <<>>
                   ELSE LET b == CHOOSE x \in bs : TRUE IN (b :> EarlyResponseRoute(b)) @@ Table(bs \ {b})
  IN  Table(Bodies)
\* detectIdentifiers3(t) for the request texts that reach the detector,
\* evaluated once
Detection3Of ==
  LET RECURSIVE Table(_)
      Table(ts) == IF ts = {} THEN <<>>
                   ELSE LET t == CHOOSE x \in ts : TRUE IN (t :> detectIdentifiers3(t)) @@ Table(ts \ {t})
  IN  Table(ReachDetector)
UpstreamOutcomes ==
  {Completion, UpstreamError(0, "", ""), UpstreamError(429, "insufficient_quota", ""),
   UpstreamError(429, "", "insufficient_quota"), UpstreamError(429, "rate_limit_exceeded", "requests"),
   UpstreamError(429, "", ""), UpstreamError(401, "", ""), UpstreamError(403, "", ""),
   UpstreamError(500, "", "")}
\* the two POST handlers of the sources
Versions == {"route.ts", "part_001"}
NodeEnvs == {"development", "production", "test"}

InitHandler ==
  /\ pc = [r \in Req |-> "idle"]
  /\ body = [r \in Req |-> InvalidJson]
  /\ detection = [r \in Req |-> None]
  /\ client = [r \in Req |-> FALSE]
  /\ sent = [r \in Req |-> None]
  /\ response = [r \in Req |-> None]
  /\ arrays = NewArrays
  /\ caught = [r \in Req |-> None]
\* useState("sv"), useState(""), useState(false), useState(false),
\* useState({ sv: "", en: "" }), useState(""), useState(""), useState(null)
InitPage ==
  /\ lang = "sv"
  /\ textInput = <<>>
  /\ confirmed = FALSE
  /\ isSubmitting = FALSE
  /\ soapByLang = [l \in UiLang |-> ""]
  /\ debug = ""
  /\ serverError = ""
  /\ errorKey = "null"
  /\ flights = <<>>
  /\ settled = None
InitDetector ==
  /\ note = <<>>
  /\ result = None
  /\ padded = None
  /\ paddedResult = None
  /\ thrown = FALSE
  /\ result3 = None

\* a faulty variant of ArraysAtEntry: the arrays outlive the call
ArraysAtEntry_kept(last) == last
\* the arrays a call of detectIdentifiers starts from: const reasons = [],
\* const matches = [], whatever the previous call left
ArraysAtEntry(last) == NewArrays

\* a faulty variant of Blocked: a single finding is let through
Blocked_moreThanOne(d) == Len(d.matches) > 1
\* if (detection.hasIdentifiers)
Blocked(d) == d.hasIdentifiers

\* a request arrives; the handler awaits req.json()
Arrive(r, b) ==
  /\ pc[r] = "idle"
  /\ pc' = [pc EXCEPT ![r] = "json"]
  /\ body' = [body EXCEPT ![r] = b]
  /\ UNCHANGED <<detection, client, sent, response, arrays, caught, version, nodeEnv, uvars, dvars>>

Finish(r, resp) ==
  /\ pc' = [pc EXCEPT ![r] = "done"]
  /\ response' = [response EXCEPT ![r] = Some(resp)]

\* the handler of part_001 from the end of req.json() to its next await or
\* its response
Handle(r) ==
  /\ version = "part_001"
  /\ pc[r] = "json"
  /\ IF EarlyResponseOf[body[r]] # None
     THEN /\ Finish(r, The(EarlyResponseOf[body[r]]))
          /\ UNCHANGED <<detection, client, sent, arrays, caught>>
     ELSE IF matchAllThrows
     THEN \* detectIdentifiers is called outside the try block: the request fails
          /\ Finish(r, Response(500, "unhandled", <<>>, <<>>))
          /\ UNCHANGED <<detection, client, sent, arrays, caught>>
     ELSE /\ arrays' = PushAll(ArraysAtEntry(arrays), DetectionsOf[TextOf(body[r])])
          /\ detection' = [detection EXCEPT ![r] = Some(Returned(arrays'))]
          /\ IF Blocked(The(detection'[r]))
             THEN /\ Finish(r, Response(400, "pii_detected", The(detection'[r]).reasons,
                                        The(detection'[r]).matches))
                  /\ UNCHANGED <<client, sent, caught>>
             ELSE /\ client' = [client EXCEPT ![r] = TRUE]
                  /\ \/ \* getOpenAIClient() throws
                        /\ caught' = [caught EXCEPT ![r] = Some(UpstreamError(0, "", ""))]
                        /\ Finish(r, FailureResponse(The(caught'[r]), nodeEnv))
                        /\ UNCHANGED sent
                     \/ \* the completion is requested and awaited
                        /\ pc' = [pc EXCEPT ![r] = "upstream"]
                        /\ sent' = [sent EXCEPT ![r] = Some(UserText(TextOf(body[r])))]
                        /\ UNCHANGED <<response, caught>>
  /\ UNCHANGED <<body, version, nodeEnv, uvars, dvars>>

\* the upstream call of part_001 returns or throws
UpstreamDone(r, outcome) ==
  /\ version = "part_001"
  /\ pc[r] = "upstream"
  /\ caught' = [caught EXCEPT ![r] = IF outcome.ok THEN None ELSE Some(outcome)]
  /\ Finish(r, IF outcome.ok THEN Response(200, "", <<>>, <<>>) ELSE FailureResponse(outcome, nodeEnv))
  /\ UNCHANGED <<body, detection, client, sent, arrays, version, nodeEnv, uvars, dvars>>

\* the handler of app/api/soap/route.ts from the end of req.json() to its
\* next await or its response
HandleRoute(r) ==
  /\ version = "route.ts"
  /\ pc[r] = "json"
  /\ IF EarlyResponseRouteOf[body[r]] # None
     THEN /\ Finish(r, The(EarlyResponseRouteOf[body[r]]))
          /\ UNCHANGED <<detection, client, sent, caught>>
     ELSE /\ detection' = [detection EXCEPT ![r] = Some(Detection3Of[TextOf(body[r])])]
          /\ IF Blocked(The(detection'[r]))
             THEN /\ Finish(r, Response(400, "", The(detection'[r]).reasons, <<>>))
                  /\ UNCHANGED <<client, sent, caught>>
             ELSE /\ client' = [client EXCEPT ![r] = TRUE]
                  /\ \/ \* getOpenAIClient() throws
                        /\ caught' = [caught EXCEPT ![r] = Some(UpstreamError(0, "", ""))]
                        /\ Finish(r, FailureResponseRoute)
                        /\ UNCHANGED sent
                     \/ \* the response is requested and awaited
                        /\ pc' = [pc EXCEPT ![r] = "upstream"]
                        /\ sent' = [sent EXCEPT ![r] = Some(UserText(TextOf(body[r])))]
                        /\ UNCHANGED <<response, caught>>
  /\ UNCHANGED <<body, arrays, version, nodeEnv, uvars, dvars>>

\* the upstream call of app/api/soap/route.ts returns or throws
UpstreamDoneRoute(r, outcome) ==
  /\ version = "route.ts"
  /\ pc[r] = "upstream"
  /\ caught' = [caught EXCEPT ![r] = IF outcome.ok THEN None ELSE Some(outcome)]
  /\ Finish(r, IF outcome.ok THEN Response(200, "", <<>>, <<>>) ELSE FailureResponseRoute)
  /\ UNCHANGED <<body, detection, client, sent, arrays, version, nodeEnv, uvars, dvars>>

Init == InitHandler /\ InitDetector /\ InitPage /\ version = "part_001" /\ nodeEnv \in NodeEnvs
Next ==
  \/ \E r \in Req, b \in Bodies : Arrive(r, b)
  \/ \E r \in Req : Handle(r)
  \/ \E r \in Req, o \in UpstreamOutcomes : UpstreamDone(r, o)
Spec == Init /\ [][Next]_vars

\* either handler serves the requests
InitHandlers == InitHandler /\ InitDetector /\ InitPage /\ version \in Versions /\ nodeEnv \in NodeEnvs
NextRoute ==
  \/ \E r \in Req : HandleRoute(r)
  \/ \E r \in Req, o \in UpstreamOutcomes : UpstreamDoneRoute(r, o)
NextHandlers == Next \/ NextRoute
SpecHandlers == InitHandlers /\ [][NextHandlers]_vars
\* every await of a request settles: req.json(), and the upstream call, which
\* returns or throws
Settles(r) ==
  /\ WF_vars(Handle(r) \/ HandleRoute(r))
  /\ WF_vars(\E o \in UpstreamOutcomes : UpstreamDone(r, o) \/ UpstreamDoneRoute(r, o))
\* one body of each kind: no JSON, a blank text, a text without and one with
\* identifiers, a text that is too long
SettlingBodies ==
  {InvalidJson, Payload(Some(Chars("  ")), "sv"), Payload(Some(CleanText), "en"),
   Payload(Some(Chars("age 47")), "sv"), Payload(Some(LongText), "en")}
NextSettling ==
  \/ \E r \in Req, b \in SettlingBodies : Arrive(r, b)
  \/ \E r \in Req : Handle(r)
  \/ \E r \in Req, o \in UpstreamOutcomes : UpstreamDone(r, o)
  \/ NextRoute
SpecSettling == InitHandlers /\ [][NextSettling]_vars /\ \A r \in Req : Settles(r)

(* ------------------------ one call of the detector ---------------------- *)
\* detectIdentifiers(note)
Detect ==
  /\ result = None
  /\ ~thrown
  /\ thrown' = matchAllThrows
  /\ IF thrown'
     THEN UNCHANGED <<arrays, result>>
     ELSE /\ arrays' = PushAll(ArraysAtEntry(arrays), Detections(note))
          /\ result' = Some(Returned(arrays'))
  /\ UNCHANGED <<note, padded, paddedResult, result3, pc, body, detection, client, sent, response, caught, version, nodeEnv, uvars>>

\* the three-reason detectIdentifiers(note)
Detect3 ==
  /\ result3 = None
  /\ result3' = Some(detectIdentifiers3(note))
  /\ UNCHANGED <<note, result, padded, paddedResult, thrown, hvars, uvars>>

\* the positions at which m occurs in s
Occurrences(s, m) == {i \in 1..(Len(s) + 1 - Len(m)) : SubSeq(s, i, i + Len(m) - 1) = m}
IsSubstring(m, s) == Occurrences(s, m) # {}
\* s with w inserted before position i
InsertAt(s, i, w) == SubSeq(s, 1, i - 1) \o w \o SubSeq(s, i, Len(s))
\* detectIdentifiers on the text with whitespace w inserted immediately
\* before an occurrence of a substring the first call reported
Pad(k, i, w) ==
  /\ result # None
  /\ padded = None
  /\ k \in DOMAIN The(result).matches
  /\ i \in Occurrences(note, The(result).matches[k].match)
  /\ thrown' = matchAllThrows
  /\ padded' = Some(InsertAt(note, i, w))
  /\ IF thrown'
     THEN UNCHANGED <<arrays, paddedResult>>
     ELSE /\ arrays' = PushAll(ArraysAtEntry(arrays), Detections(The(padded')))
          /\ paddedResult' = Some(Returned(arrays'))
  /\ UNCHANGED <<note, result, result3, pc, body, detection, client, sent, response, caught, version, nodeEnv, uvars>>

(* ------------------------------- the page ------------------------------- *)
\* the texts the user types: nothing, whitespace, a note
UiTexts == {<<>>, Chars("  "), Chars("no fever")}
\* the most calls of onSubmit that have not returned
MaxFlights == 2

\* what res.json() gives: it throws, or the value is null, or an object with
\* the fields the page reads ("" for a field that is absent or no string)
Data(parsed, key, error, hasDebug, soap) ==
  [parsed |-> parsed, errorKey |-> key, error |-> error, debug |-> hasDebug, soap |-> soap]
NoJson == Data("throws", "", "", FALSE, "")
JsonNull == Data("null", "", "", FALSE, "")
\* how fetch settles: it rejects, or it resolves with a response
FetchResult(kind, ok, data) == [kind |-> kind, ok |-> ok, data |-> data]
Pending == FetchResult("pending", FALSE, NoJson)
FetchResults ==
  {FetchResult("rejects", FALSE, NoJson)}
    \cup {FetchResult("response", TRUE, d) :
            d \in {Data("object", "", "", FALSE, "S: no fever"), Data("object", "", "", FALSE, ""),
                   JsonNull, NoJson}}
    \cup {FetchResult("response", FALSE, d) :
            d \in {Data("object", "pii_detected", "Input appears to contain patient identifiers.", FALSE, ""),
                   Data("object", "rate_limited", "Too many requests.", TRUE, ""),
                   Data("object", "", "Upstream formatting failed.", FALSE, ""),
                   JsonNull, NoJson}}

\* a faulty variant of canSubmit: a submission in progress does not count
canSubmit_whileSubmitting(c, t, s) == c /\ Len(trim(t)) > 0
\* confirmed && text.trim().length > 0 && !isSubmitting
canSubmit(c, t, s) == c /\ Len(trim(t)) > 0 /\ ~s
\* a faulty variant of StoredUnder: the language selected when the response
\* arrives
StoredUnder_current(f, current) == current
\* [lang] in the updater of setSoapByLang: the lang of the render the call of
\* onSubmit belongs to
StoredUnder(f, current) == f.lang
\* a faulty variant of SubmittingAfter: the early return of a rejected
\* response leaves isSubmitting set
SubmittingAfter_successOnly(res) == res.kind = "response" /\ ~res.ok
\* finally { setIsSubmitting(false) }
SubmittingAfter(res) == FALSE
\* data?.errorKey ?? "rejected", for data = await res.json().catch(() => null)
ErrorKeyOf(data) == IF data.parsed = "object" /\ data.errorKey # "" THEN data.errorKey ELSE "rejected"
\* typeof data?.error === "string" ? data.error : ""
ServerErrorOf(data) == IF data.parsed = "object" THEN data.error ELSE ""
\* the success path throws: res.json() rejects, or data.soap is read of null
SuccessThrows(data) == data.parsed # "object"
RemoveAt(s, i) == SubSeq(s, 1, i - 1) \o SubSeq(s, i + 1, Len(s))
\* the call of onSubmit that has returned, with the language selected then
Settled(f, res, current) ==
  Some([language |-> f.language, text |-> f.text, lang |-> f.lang, res |-> res, langAtEnd |-> current])

\* onClick={() => setLang(l)}
SetLang(l) ==
  /\ lang' = l
  /\ UNCHANGED <<textInput, confirmed, isSubmitting, soapByLang, debug, serverError, errorKey, flights,
                 settled, hvars, dvars>>
\* onChange={(e) => setText(e.target.value)}
SetText(t) ==
  /\ textInput' = t
  /\ UNCHANGED <<lang, confirmed, isSubmitting, soapByLang, debug, serverError, errorKey, flights,
                 settled, hvars, dvars>>
\* onChange={(e) => setConfirmed(e.target.checked)}
SetConfirmed(c) ==
  /\ confirmed' = c
  /\ UNCHANGED <<lang, textInput, isSubmitting, soapByLang, debug, serverError, errorKey, flights,
                 settled, hvars, dvars>>

\* the submit button is enabled and pressed: onSubmit up to await fetch(...)
Submit ==
  /\ canSubmit(confirmed, textInput, isSubmitting)
  /\ Len(flights) < MaxFlights
  /\ errorKey' = "null"
  /\ serverError' = ""
  /\ soapByLang' = [soapByLang EXCEPT ![lang] = ""]
  /\ debug' = ""
  /\ isSubmitting' = TRUE
  /\ flights' = Append(flights, [language |-> lang, text |-> textInput, lang |-> lang,
                                 pc |-> "fetch", res |-> Pending])
  /\ UNCHANGED <<lang, textInput, confirmed, settled, hvars, dvars>>

\* fetch settles for the i-th call: it rejects (catch, finally), or it
\* resolves and the call awaits res.json()
FetchSettles(i, res) ==
  /\ i \in DOMAIN flights
  /\ flights[i].pc = "fetch"
  /\ IF res.kind = "rejects"
     THEN /\ errorKey' = "network"
          /\ isSubmitting' = SubmittingAfter(res)
          /\ flights' = RemoveAt(flights, i)
          /\ settled' = Settled(flights[i], res, lang)
     ELSE /\ flights' = [flights EXCEPT ![i].pc = "body", ![i].res = res]
          /\ UNCHANGED <<errorKey, isSubmitting, settled>>
  /\ UNCHANGED <<lang, textInput, confirmed, soapByLang, debug, serverError, hvars, dvars>>

\* res.json() settles for the i-th call: onSubmit from there to its end
BodySettles(i) ==
  /\ i \in DOMAIN flights
  /\ flights[i].pc = "body"
  /\ IF ~flights[i].res.ok
     THEN /\ errorKey' = ErrorKeyOf(flights[i].res.data)
          /\ serverError' = ServerErrorOf(flights[i].res.data)
          /\ debug' = IF nodeEnv = "development" /\ flights[i].res.data.debug THEN "debug" ELSE debug
          /\ UNCHANGED soapByLang
     ELSE IF SuccessThrows(flights[i].res.data)
     THEN /\ errorKey' = "network"
          /\ UNCHANGED <<serverError, debug, soapByLang>>
     ELSE /\ soapByLang' = [soapByLang EXCEPT ![StoredUnder(flights[i], lang)] = flights[i].res.data.soap]
          /\ UNCHANGED <<errorKey, serverError, debug>>
  /\ isSubmitting' = SubmittingAfter(flights[i].res)
  /\ flights' = RemoveAt(flights, i)
  /\ settled' = Settled(flights[i], flights[i].res, lang)
  /\ UNCHANGED <<lang, textInput, confirmed, hvars, dvars>>

NextPage ==
  \/ \E l \in UiLang : SetLang(l)
  \/ \E t \in UiTexts : SetText(t)
  \/ \E c \in BOOLEAN : SetConfirmed(c)
  \/ Submit
  \/ \E i \in 1..MaxFlights, res \in FetchResults : FetchSettles(i, res)
  \/ \E i \in 1..MaxFlights : BodySettles(i)
InitPageSpec ==
  InitHandler /\ InitDetector /\ InitPage /\ version = "part_001" /\ nodeEnv \in {"development", "production"}
SpecPage == InitPageSpec /\ [][NextPage]_vars
\* every await of a call of onSubmit settles
SpecPageSettling ==
  /\ SpecPage
  /\ WF_vars(\E i \in 1..MaxFlights, res \in FetchResults : FetchSettles(i, res))
  /\ WF_vars(\E i \in 1..MaxFlights : BodySettles(i))

(* -------------------------- inputs of the detector ---------------------- *)
DetectorStartsOn(inputs) ==
  /\ InitHandler
  /\ InitPage
  /\ version = "part_001"
  /\ nodeEnv = "production"
  /\ note \in inputs
  /\ result = None
  /\ padded = None
  /\ paddedResult = None
  /\ thrown = FALSE
  /\ result3 = None
\* a || b for the join of two sets of texts: every a, every a followed by b
Joined(as, js, bs) == {a \o j \o b : a \in as, j \in js, b \in bs}

\* clinical phrases, each alone and two of them joined by a run of whitespace
Fragments ==
  {Chars("John"), Chars("Smith reports pain"), Chars("Name: John"), Chars("a@b.se"), Chars("age 47"),
   Chars("2024-01-15"), Chars("19900101-1234"), Chars("12"), Chars("May"), Chars("Anna"),
   Chars("Berg denies fever."), Chars("no acute distress"), Chars("0701234567"),
   Chars("Ward 5 bed 2 07:15"), Chars("Storgatan 12"), Chars("MRN 12345")}
DetectInputs == Fragments \cup Joined(Fragments, Pads, Fragments)
SpecDetect == DetectorStartsOn(DetectInputs) /\ [][Detect]_vars
\* both versions of detectIdentifiers on the phrases joined by one space
BothInputs == Fragments \cup Joined(Fragments, {<<" ">>}, Fragments)
BothNext == Detect \/ Detect3
SpecBoth == DetectorStartsOn(BothInputs) /\ [][BothNext]_vars

\* the degenerate inputs: the empty string, the whitespace-only strings up
\* to MaxPad + 2 characters, and every string of one or two characters
BlankTexts == UNION {[1..n -> Space] : n \in 0..(MaxPad + 2)}
ShortTexts == UNION {[1..n -> Char] : n \in 1..2}
SpecDegenerate == DetectorStartsOn(BlankTexts \cup ShortTexts) /\ [][Detect]_vars

\* personal numbers, alone and with further digits before or after them,
\* separated by a space, a hyphen or a run of whitespace
PersonalNumbers ==
  {Chars("19900101-1234"), Chars("900101-1234"), Chars("900101+1234"), Chars("19900101+1234")}
MoreDigits == {Chars("5"), Chars("12")}
DigitJoins == {<<" ">>, <<"-">>} \cup Pads
PhoneInputs ==
  Joined({<<>>} \cup Joined(MoreDigits, DigitJoins, {<<>>}), PersonalNumbers,
         {<<>>} \cup Joined({<<>>}, DigitJoins, MoreDigits))
SpecPhone == DetectorStartsOn(PhoneInputs) /\ [][Detect]_vars

\* age expressions that are not precise: decades, and two-ended ranges with
\* or without an age label and a trailing age unit
Decades ==
  {Chars("40s"), Chars("40's"), Chars("in their 40s"), Chars("40-") \o <<aring>> \o Chars("rs") \o <<aring>> \o Chars("ldern"),
   Chars("i 40-") \o <<aring>> \o Chars("rs") \o <<aring>> \o Chars("ldern")}
AgeLabels ==
  {<<>>, Chars("age "), Chars("aged "), Chars("age: "), Chars("Age "),
   <<aring>> \o Chars("lder "), <<aring>> \o Chars("lder: "), Chars("patient, ")}
RangeBounds == {<<Chars("20"), Chars("30")>>, <<Chars("5"), Chars("10")>>, <<Chars("47"), Chars("48")>>}
RangeSigns == {<<"-">>, <<ndash>>, Chars(" to "), Chars(" - "), <<" ", ndash, " ">>}
AgeUnits ==
  {<<>>, Chars(" years old"), Chars(" year old"), Chars(" yrs old"), Chars(" yo"), Chars(" y/o"),
   <<" ", aring, "r">>, <<" ", aring, "r">> \o Chars(" gammal"), <<"-", aring>> \o Chars("rig"),
   <<" ", aring>> \o Chars("rig")}
Ranges == {b[1] \o s \o b[2] : b \in RangeBounds, s \in RangeSigns}
AgeRangeTexts == Decades \cup Joined(AgeLabels, Ranges, AgeUnits)
PreciseAgeTexts == {Chars("age 47"), Chars("47 years old"), Chars("47M")}
SpecAge == DetectorStartsOn(AgeRangeTexts \cup PreciseAgeTexts) /\ [][Detect]_vars

\* dates in the four forms, alone and two of them in either order
DateFragments ==
  {Chars("2024-01-15"), Chars("Born 2024-01-15"), Chars("2024/1/5"), Chars("01/02/2024"),
   Chars("13.01.2024"), Chars("12/25/2024"), Chars("May"), Chars("saw patient in May"),
   Chars("3 maj"), Chars("no date"), Chars("12024-01-15")}
DateInputs == DateFragments \cup Joined(DateFragments, Pads, DateFragments)
SpecDate == DetectorStartsOn(DateInputs) /\ [][Detect]_vars

\* texts in which a detector reports something, to be padded before it
PadBases ==
  {Chars("we saw May: ok"), Chars("12 3456 78 years old"), Chars("at 2 Pm Smith"),
   Chars("Ward 5 bed 2 07:15"), Chars("call 0701234567"), Chars("age 47"), Chars("seen by Anna Berg"),
   Chars("Name: John"), Chars("John: hello"), Chars("2024-01-15"), Chars("a@b.se"),
   Chars("x 19900101-1234"), Chars("47 years old"), Chars("yesterday evening"),
   Chars("MRN 12345"), Chars("Storgatan 12")}
PadNext == Detect \/ \E k \in 1..14, i \in 1..20, w \in Pads : Pad(k, i, w)
SpecPad == DetectorStartsOn(PadBases) /\ [][PadNext]_vars

(* ============================== properties ============================== *)
Has(o) == o # None
\* the requests whose text reached detectIdentifiers
Detected(r) == Has(detection[r])
EmptyResult == [hasIdentifiers |-> FALSE, reasons |-> <<>>, matches |-> <<>>]
\* the entries of a result's matches with the given reason
RECURSIVE EntriesIn(_, _)
EntriesIn(ms, reason) ==
  IF ms = <<>> THEN <<>>
  ELSE (IF Head(ms).reason = reason THEN <<Head(ms)>> ELSE <<>>) \o EntriesIn(Tail(ms), reason)
EntriesOf(res, reason) == EntriesIn(res.matches, reason)

\* C1: a request whose text detectIdentifiers finds identifiers in is answered
\* with status 400 carrying the detected reasons, and for it the client is
\* never created and nothing is sent upstream; the client is created, and a
\* text sent upstream, only for a request whose detection found no identifiers.
C1_BlockedNeverReachesUpstream ==
  \A r \in Req :
    /\ (Detected(r) /\ The(detection[r]).hasIdentifiers) =>
         /\ pc[r] = "done"
         /\ Has(response[r])
         /\ The(response[r]).status = 400
         /\ The(response[r]).reasons = The(detection[r]).reasons
         /\ ~client[r]
         /\ sent[r] = None
    /\ (client[r] \/ Has(sent[r])) => (Detected(r) /\ ~The(detection[r]).hasIdentifiers)
\* one request was refused with its reasons while another went upstream
C1_Witness ==
  \E r \in Req, q \in Req :
    /\ Detected(r) /\ The(detection[r]).hasIdentifiers
    /\ Has(response[r]) /\ The(response[r]).status = 400 /\ The(response[r]).reasons # <<>>
    /\ Has(sent[q]) /\ client[q]

\* C2: in the result of either version of detectIdentifiers, hasIdentifiers is
\* true exactly when the reasons list is non-empty.
C2_HasIdentifiersIffReasons ==
  /\ Has(result) => (The(result).hasIdentifiers <=> The(result).reasons # <<>>)
  /\ Has(result3) => (The(result3).hasIdentifiers <=> The(result3).reasons # <<>>)
\* both versions ran on a text in which the later one finds an identifier
\* and the earlier one none
C2_Witness ==
  /\ Has(result) /\ The(result).hasIdentifiers /\ The(result).reasons # <<>>
  /\ Has(result3) /\ ~The(result3).hasIdentifiers /\ The(result3).reasons = <<>>

\* C3: every match of the result is a contiguous substring of the text, as
\* written.
C3_MatchesAreSlices ==
  Has(result) => \A k \in DOMAIN The(result).matches : IsSubstring(The(result).matches[k].match, note)

\* the entries of a sequence that no earlier entry equals, in order
FirstSeen(seq) ==
  LET keep == Ascending({k \in DOMAIN seq : \A j \in 1..(k - 1) : seq[j] # seq[k]})
  IN  [i \in 1..Len(keep) |-> seq[keep[i]]]
TwoEmails == Cardinality(Occurrences(note, Chars("a@b.se"))) >= 2
\* C4: the result's matches holds no two entries with the same reason and
\* match, it is the pushed entries in first-seen order, and a text with the
\* same email address twice yields exactly one email entry.
C4_MatchesDeduplicatedInOrder ==
  Has(result) =>
    LET ms == The(result).matches
    IN  /\ \A i \in DOMAIN ms, j \in DOMAIN ms : i # j => ms[i] # ms[j]
        /\ ms = FirstSeen(arrays.matches)
        /\ TwoEmails => Len(EntriesOf(The(result), "email")) = 1
\* the detector ran on a text with the same email address twice
C4_Witness ==
  /\ Has(result)
  /\ TwoEmails
  /\ EntriesOf(The(result), "email") = <<[reason |-> "email", match |-> Chars("a@b.se")]>>

\* detectIdentifiers(t) for the request texts that reach the detector, each
\* evaluated on its own
AloneResult ==
  LET RECURSIVE Table(_)
      Table(ts) == IF ts = {} THEN <<>>
                   ELSE LET t == CHOOSE x \in ts : TRUE IN (t :> detectIdentifiers(t)) @@ Table(ts \ {t})
  IN  Table(ReachDetector)
\* C5: whatever requests ran before or in between, the detection of a request
\* is the result detectIdentifiers gives for its text alone, so two requests
\* with the same text get identical results.
C5_ResultDependsOnTextOnly ==
  /\ \A r \in Req : Detected(r) => The(detection[r]) = AloneResult[TextOf(body[r])]
  /\ \A r \in Req, q \in Req :
       (Detected(r) /\ Detected(q) /\ TextOf(body[r]) = TextOf(body[q])) => detection[r] = detection[q]
\* a text with identifiers was checked and then, for another request, a
\* different text without identifiers
C5_Witness ==
  \E r \in Req, q \in Req :
    /\ r # q
    /\ Detected(r) /\ Detected(q)
    /\ arrays = NewArrays
    /\ The(detection[r]).hasIdentifiers /\ ~The(detection[q]).hasIdentifiers

\* C6: detectIdentifiers returns for every input, and for the empty string,
\* a whitespace-only string and a string of one or two characters the result
\* is empty.
C6_DegenerateInputsGiveEmptyResult ==
  /\ ~thrown
  /\ (Has(result) /\ (note \in BlankTexts \/ Len(note) <= 2)) => The(result) = EmptyResult
\* the detector ran on a string of two characters, neither of them blank
C6_Witness ==
  /\ Has(result)
  /\ Len(note) = 2
  /\ note[1] \in Digit
  /\ note[2] \in Range(AsciiUpper)
  /\ The(result) = EmptyResult

\* the substrings of s that have the strict personal-number shape
PersonalNumbersIn(s) ==
  LET ms == matchAll(detectSwedishPersonalNumber_re, s, 1)
  IN  {Hit(s, ms[k]) : k \in DOMAIN ms}
\* C7: no phone_number match is, or contains, a substring of the text that
\* has the strict personal-number shape.
C7_NoPhoneNumberOverPersonalNumber ==
  Has(result) =>
    \A k \in DOMAIN The(result).matches :
      The(result).matches[k].reason = "phone_number" =>
        \A p \in PersonalNumbersIn(note) : ~IsSubstring(p, The(result).matches[k].match)

\* C8: a decade expression or a two-ended range, with or without an age label
\* or a trailing age unit, never gives precise_age, while "age 47" gives
\* precise_age with the match "age 47".
C8_RangesAreNotPreciseAges ==
  Has(result) =>
    /\ note \in AgeRangeTexts => EntriesOf(The(result), "precise_age") = <<>>
    /\ note = Chars("age 47") =>
         EntriesOf(The(result), "precise_age") = <<[reason |-> "precise_age", match |-> Chars("age 47")]>>

\* the left-most match of re in s, or null
Leftmost(re, s) == LET m == MatchFrom(re, s, 1) IN IF m = NoMatch THEN null ELSE Hit(s, m)
\* the match the priority order ISO-like, day-month-year, month-day-year,
\* month name picks
DateByPriority(s) ==
  IF Leftmost(isoLikeRe, s) # null THEN Leftmost(isoLikeRe, s)
  ELSE IF Leftmost(dmyRe, s) # null THEN Leftmost(dmyRe, s)
  ELSE IF Leftmost(mdyRe, s) # null THEN Leftmost(mdyRe, s)
  ELSE Leftmost(monthRe, s)
DayFirstThenIso == Chars("01/02/2024 2024-01-15")
\* C9: the date reported is the left-most match of the first of ISO-like,
\* day-month-year, month-day-year and month name that matches anywhere in the
\* text: "01/02/2024 2024-01-15" reports "2024-01-15", and a month name is
\* reported only when no numeric form matches.
C9_DatePriorityOrder ==
  Has(result) =>
    LET found == EntriesOf(The(result), "date")
        expected == DateByPriority(note)
    IN  /\ found = IF expected = null THEN <<>> ELSE <<[reason |-> "date", match |-> expected]>>
        /\ note = DayFirstThenIso => expected = Chars("2024-01-15")
        /\ note = Chars("Born 2024-01-15") => expected = Chars("2024-01-15")
        /\ (expected # null /\ Test(monthRe, expected)) =>
             \A re \in {isoLikeRe, dmyRe, mdyRe} : ~Test(re, note)
\* the detector ran on a text with a day-month-year date before an ISO-like
\* one and reported the ISO-like one
C9_Witness ==
  /\ Has(result)
  /\ note = DayFirstThenIso
  /\ EntriesOf(The(result), "date") = <<[reason |-> "date", match |-> Chars("2024-01-15")]>>

\* C10: inserting whitespace immediately before a reported substring leaves
\* the set of reasons unchanged.
C10_PaddingKeepsReasons ==
  Has(paddedResult) => Range(The(paddedResult).reasons) = Range(The(result).reasons)

(* ------------------------- order of the detectors ----------------------- *)
DetectorOrder ==
  << "swedish_personal_number", "date", "temporal_reference", "precise_age", "full_name",
     "initial_last_name", "name_label", "name_tag", "name_in_prose",
     "patient_id_or_journal_number", "email", "phone_number", "address",
     "ward_bed_timestamp" >>
\* the reasons of DetectorOrder whose detector returns a match on s, in order
ReasonsInOrder(s) ==
  LET ds == Detections(s)
      keep == Ascending({k \in DOMAIN DetectorOrder : k \in DOMAIN ds /\ ds[k].match # null})
  IN  [i \in 1..Len(keep) |-> DetectorOrder[keep[i]]]
\* C11: the reasons of the result are, in the fixed detector order, exactly
\* the reasons of the detectors that returned a match; every detector is
\* called once, in that order, and pushes at most one entry, so the pushed
\* reasons and the reasons of the matches are that same list.
C11_ReasonsInDetectorOrder ==
  Has(result) =>
    \A ds \in {Detections(note)}, rs \in {ReasonsInOrder(note)} :
      /\ Len(ds) = Len(DetectorOrder)
      /\ \A k \in DOMAIN DetectorOrder : ds[k].reason = DetectorOrder[k]
      /\ The(result).reasons = rs
      /\ arrays.reasons = rs
      /\ [k \in DOMAIN The(result).matches |-> The(result).matches[k].reason] = rs
\* four detectors matched, the first two of the order did not, and the
\* ward-bed-time detector matched after the name-label detector
C11_Witness ==
  /\ Has(result)
  /\ Len(The(result).reasons) >= 4
  /\ The(result).reasons[1] = "temporal_reference"
  /\ \E i \in DOMAIN The(result).reasons, j \in DOMAIN The(result).reasons :
       i < j /\ The(result).reasons[i] = "name_label"
             /\ The(result).reasons[j] = "ward_bed_timestamp"

(* --------------------------- labelled name fields ----------------------- *)
\* a label word, ':' or '-', and one or two letter-only tokens, followed by
\* nothing or by text that is no further name token
LabelWords == {Chars("Name"), Chars("patient"), Chars("Patienten"), Chars("pt"), Chars("Namn")}
LabelSeparators == {Chars(": "), Chars(":"), Chars(" - ")}
GivenNames == {Chars("John"), Chars("sam"), Chars("Andr") \o <<eacute>>, Chars("Sj") \o <<ouml>>}
FamilyNames == {Chars("Smith"), <<Ouml>> \o Chars("berg"), Chars("Berg") \o <<eacute>>}
\* <<the tokens after the label, what follows them>>
LabelledNames ==
  {<<g, t>> : g \in GivenNames, t \in {<<>>, Chars(", 47 y")}}
    \cup {<<g \o <<" ">> \o f, t>> : g \in GivenNames, f \in FamilyNames,
                                    t \in {<<>>, Chars(" reports fatigue")}}
\* label words, acronyms and tokens with digits in the place of the name
NotNames ==
  {Chars("ECG"), Chars("AB12"), Chars("Patient"), Chars("pt"), Chars("John ECG"),
   Chars("namn Berg"), <<Eacute>> \o Chars("CG")}
LabelInputs ==
  {l \o s \o n[1] \o n[2] : l \in LabelWords, s \in LabelSeparators, n \in LabelledNames}
    \cup {l \o s \o n : l \in LabelWords, s \in LabelSeparators, n \in NotNames}
SpecLabel == DetectorStartsOn(LabelInputs) /\ [][Detect]_vars
\* the maximal runs of non-whitespace characters of s
TokensOf(s) == NonEmpty(Split(s, Space, TRUE))
AllCaps(w) == w # <<>> /\ \A k \in DOMAIN w : w[k] \in Lu
\* C12: after a label word and ':' or '-', the name_label match is the one
\* or two letter-only tokens that follow; no name_label match holds a digit,
\* an all-caps token or a label word.
C12_NameLabelReportsTheTokens ==
  Has(result) =>
    /\ \A l \in LabelWords, s \in LabelSeparators, n \in LabelledNames :
         note = l \o s \o n[1] \o n[2] =>
           EntriesOf(The(result), "name_label") = <<[reason |-> "name_label", match |-> n[1]]>>
    /\ \A e \in Range(EntriesOf(The(result), "name_label")) :
         /\ \A k \in DOMAIN e.match : e.match[k] \notin Digit
         /\ \A w \in Range(TokensOf(e.match)) :
              ~AllCaps(w) /\ toLowerCase(w) \notin {toLowerCase(l) : l \in LabelWords}

\* what the fourteen detectors return on the clean clinical sentence
CleanDetections == Detections(CleanText)
\* C13: on the clean clinical sentence none of the fourteen detectors
\* matches, and a request with that text gets the empty result: no
\* identifiers, no reasons, no matches.
C13_CleanSentenceHasNoIdentifiers ==
  /\ \A k \in DOMAIN CleanDetections : CleanDetections[k].match = null
  /\ \A r \in Req :
       (Detected(r) /\ TextOf(body[r]) = CleanText) => The(detection[r]) = EmptyResult
\* a request with the clean sentence passed the detector and went upstream
C13_Witness ==
  \E r \in Req :
    /\ Detected(r)
    /\ TextOf(body[r]) = CleanText
    /\ The(detection[r]) = EmptyResult
    /\ sent[r] = Some(CleanText)

(* ----------------------- the checks before detection -------------------- *)
\* the body is no JSON, or its text is missing, no string, empty or blank
NoText(b) == ~b.json \/ b.text = None \/ \A k \in DOMAIN The(b.text) : The(b.text)[k] \in Space
\* the request bodies of the model without a text, and those with one
NoTextBodies == {b \in Bodies : NoText(b)}
TextBodies == Bodies \ NoTextBodies
Handled(r) == pc[r] \in {"upstream", "done"}
\* C14: a request whose body is no valid JSON, or whose text is missing, no
\* string, empty or whitespace-only, is answered with status 400, and for it
\* neither detectIdentifiers nor the client is invoked.
C14_NoTextIsRefusedBeforeDetection ==
  \A r \in Req :
    (Handled(r) /\ body[r] \in NoTextBodies) =>
      /\ pc[r] = "done"
      /\ Has(response[r]) /\ The(response[r]).status = 400
      /\ ~Detected(r)
      /\ ~client[r]
      /\ sent[r] = None
\* one request that was no JSON and one with a whitespace-only text were
\* both answered with status 400
C14_Witness ==
  \E r \in Req, q \in Req :
    /\ pc[r] = "done" /\ ~body[r].json
    /\ The(response[r]) = Response(400, "invalid_json", <<>>, <<>>)
    /\ pc[q] = "done" /\ body[q].json /\ body[q].text = Some(Chars("  "))
    /\ The(response[q]) = Response(400, "text_required", <<>>, <<>>)
    /\ ~Detected(r) /\ ~Detected(q)

\* C15: detectIdentifiers and the upstream service are never invoked with a
\* text longer than 20000 characters; a non-blank text longer than that is
\* answered with status 413; the blank-text check comes before the size
\* check (a blank text longer than that is answered with status 400), the
\* size check before detection, and detection before the upstream call.
C15_SizeIsBoundedBeforeDetection ==
  \A r \in Req :
    /\ Detected(r) => Len(TextOf(body[r])) <= 20000
    /\ Has(sent[r]) => (Len(The(sent[r])) <= 20000 /\ Detected(r))
    /\ client[r] => Detected(r)
    /\ (Handled(r) /\ body[r] \in TextBodies /\ Len(TextOf(body[r])) > 20000) =>
         /\ pc[r] = "done"
         /\ The(response[r]).status = 413
         /\ ~Detected(r) /\ ~client[r] /\ sent[r] = None
    /\ (Handled(r) /\ body[r] \in NoTextBodies /\ Len(TextOf(body[r])) > 20000) =>
         The(response[r]).status = 400
\* a long text was answered with status 413 and a long blank text with
\* status 400, neither reaching the detector
C15_Witness ==
  \E r \in Req, q \in Req :
    /\ pc[r] = "done" /\ body[r].text = Some(LongText) /\ The(response[r]).status = 413
    /\ pc[q] = "done" /\ body[q].text = Some(LongBlank) /\ The(response[q]).status = 400
    /\ ~Detected(r) /\ ~Detected(q)

(* ------------------------ temporal references (C16) --------------------- *)
\* a clock time, a time-of-day phrase, a relative expression, a qualified
\* weekday, a bare weekday, an ordinal day, a duration and an ordinal day with
\* a relative month, each alone and two of them joined by a space
TemporalFragments ==
  {Chars("14:30"), Chars("2 pm"), Chars("in the morning"), Chars("evening"), Chars("i natt"),
   Chars("yesterday"), Chars("last Friday"), Chars("monday"), Chars("24th"), Chars("2 days ago"),
   Chars("no pain")}
TemporalInputs == TemporalFragments \cup Joined(TemporalFragments, {Chars(" ")}, TemporalFragments)
SpecTemporal == DetectorStartsOn(TemporalInputs) /\ [][Detect]_vars

\* the stages in the documented order: clock time, time-of-day phrase,
\* relative expression, qualified weekday, bare weekday, ordinal day,
\* duration, ordinal day with relative month
DocumentedStages ==
  << <<time24hRe, timeAmPmRe>>,
     <<timeWordsRe, timeOfDayRe, timeRangeRe, timeOfDayBareRe, timeWordsSvRe, timeOfDaySvRe,
       timeOfDayBareSvRe>>,
     <<relativeRe, relativeSvRe>>,
     <<weekdayRe, weekdaySvRe>>,
     <<weekdayBareRe, weekdayBareSvRe>>,
     <<ordinalRe>>,
     <<durationRe, durationSvRe>>,
     <<ordinalRelativeRe>> >>
\* the non-empty first matches of the patterns of stage k
StageHits(s, k) ==
  {firstRegexMatch(s, DocumentedStages[k][i]) : i \in DOMAIN DocumentedStages[k]} \ {null}
\* the first documented stage with a non-empty match, 0 when there is none
FirstStage(s) ==
  LET hit == {k \in DOMAIN DocumentedStages : StageHits(s, k) # {}}
  IN  IF hit = {} THEN 0 ELSE CHOOSE k \in hit : \A j \in hit : k <= j

\* C16: the temporal detector reports the match of the first stage, in the
\* order clock time, time-of-day phrase, relative expression, qualified
\* weekday, bare weekday, ordinal day, duration, ordinal day with relative
\* month, that has a non-empty match; for a text containing both a clock time
\* and a time-of-day phrase the reported match is the clock time.
C16_TemporalCascadeOrder ==
  Has(result) =>
    \A found \in {EntriesOf(The(result), "temporal_reference")}, k \in {FirstStage(note)} :
      /\ (k = 0) = (found = <<>>)
      /\ k # 0 => (Len(found) = 1 /\ found[1].match \in StageHits(note, k))
      /\ (StageHits(note, 1) # {} /\ StageHits(note, 2) # {}) =>
           found[1].match \in StageHits(note, 1)

(* ---------------------------- precise ages (C17) ------------------------ *)
DigitChars == Chars("0123456789")
\* the decimal digits of a two-digit number
TwoDigits(n) == <<DigitChars[(n \div 10) + 1], DigitChars[(n % 10) + 1]>>
TwoDigitAges == 10..99
\* the documented forms, each the text before and the text after the number
AgeForms ==
  {<<<<>>, Chars(" years old")>>, <<<<>>, Chars("-year-old")>>, <<<<>>, Chars(" y/o")>>,
   <<<<>>, Chars("yo")>>, <<Chars("age "), <<>>>>, <<Chars("aged "), <<>>>>, <<Chars("age: "), <<>>>>,
   <<<<>>, <<" ", aring, "r">>>>, <<<<>>, <<"-", aring>> \o Chars("rig")>>,
   <<<<>>, <<" ", aring, "r">> \o Chars(" gammal")>>,
   <<<<aring>> \o Chars("lder "), <<>>>>, <<<<aring>> \o Chars("lder: "), <<>>>>,
   <<<<>>, <<"M">>>>, <<<<>>, <<"F">>>>}
\* a form at the start of the text, or after a space
AgeFormTexts ==
  {p \o f[1] \o TwoDigits(n) \o f[2] : p \in {<<>>, Chars("pt ")}, f \in AgeForms, n \in TwoDigitAges}
SpecAgeForms == DetectorStartsOn(AgeFormTexts) /\ [][Detect]_vars

\* C17: each documented precise-age form ('N years old', 'N-year-old',
\* 'N y/o', 'Nyo', 'age N', 'aged N', 'age: N', the Swedish 'N ar',
\* 'N-arig', 'N ar gammal', 'alder N', 'alder: N' (written with a-ring), 'NM', 'NF'), standing alone at the
\* start of the text or after a space, is reported as precise_age for every
\* N from 10 to 99.
C17_EveryAgeFormIsReported ==
  (Has(result) /\ note \in AgeFormTexts) => EntriesOf(The(result), "precise_age") # <<>>

(* ------------------------------ full names (C18) ------------------------ *)
\* capitalized tokens: ASCII-only, beginning or ending with a non-ASCII
\* letter, and hyphenated compounds
NameTokens ==
  {Chars("Anna"), Chars("Berg"), Chars("Ek"), <<Aring>> \o Chars("sa"), <<Ouml>> \o Chars("berg"),
   Chars("Andr") \o <<eacute>>, Chars("Sj") \o <<ouml>>, Chars("Anna-Lena"),
   Chars("Berg-") \o <<Aring>> \o Chars("kesson")}
\* two tokens separated by a space, at the start of the text or after a word
FullNameTexts ==
  {p \o a \o <<" ">> \o b : p \in {<<>>, Chars("pt ")}, a \in NameTokens, b \in NameTokens}
SpecFullName == DetectorStartsOn(FullNameTexts) /\ [][Detect]_vars

\* C18: for two consecutive capitalized tokens separated by whitespace (an
\* uppercase letter followed by lowercase letters, optionally a hyphenated
\* compound), full_name is reported and its match is the two tokens in full,
\* also when a token begins or ends with a non-ASCII letter.
C18_FullNameCoversBothTokens ==
  Has(result) =>
    \A a \in NameTokens, b \in NameTokens, p \in {<<>>, Chars("pt ")} :
      note = p \o a \o <<" ">> \o b =>
        EntriesOf(The(result), "full_name") =
          <<[reason |-> "full_name", match |-> a \o <<" ">> \o b]>>

(* ------------------------------ clock times (C19) ----------------------- *)
ClockTimes ==
  {Chars("00:00"), Chars("07:15"), Chars("09:05"), Chars("12:00"), Chars("14:30"), Chars("19:45"),
   Chars("20:10"), Chars("23:59")}
\* texts whose only identifier-like content is a clock time
StandaloneClockTexts ==
  Joined({<<>>, Chars("seen at "), Chars("dose given "), Chars("pain since ")}, ClockTimes,
         {<<>>, Chars("."), Chars(" and stable")})
\* the same times after a ward number and a bed number
WardBedTexts ==
  Joined({Chars("Ward 5 bed 2 "), Chars("Avd 12, s") \o <<auml>> \o Chars("ng 3 kl "),
          Chars("unit 7, bed 1 at ")}, ClockTimes, {<<>>})
SpecClock == DetectorStartsOn(StandaloneClockTexts \cup WardBedTexts) /\ [][Detect]_vars

\* C19: a text whose only identifier-like content is a standalone 24-hour
\* clock time has no identifiers, and the same time after a ward number and
\* a bed number is reported as ward_bed_timestamp.
C19_ClockTimeAloneIsNotBlocked ==
  Has(result) =>
    /\ note \in StandaloneClockTexts => ~The(result).hasIdentifiers
    /\ note \in WardBedTexts => "ward_bed_timestamp" \in Range(The(result).reasons)

(* ----------------------------- names in prose (C20) --------------------- *)
\* tokens for the name position: names, lowercase names, a hyphenated name,
\* all-caps clinical abbreviations, words of the non-name list, a token with
\* a digit
ProseTokens ==
  {Chars("Anna"), Chars("sam"), Chars("Smith"), Chars("Anna-Lena"), Chars("NEWS"), Chars("CT"),
   Chars("PET-CT"), <<Eacute>> \o Chars("CG"), Chars("Patient"), Chars("pt"), Chars("B12")}
ProseTails == {Chars("reports pain"), Chars("Denies fever."), Chars("has pain"), Chars("s") \o <<ouml>> \o Chars("ker")}
\* one or two tokens and a continuation, as the first or the second chunk
ProseInputs ==
  Joined({<<>>, Chars("Stable. ")},
         {a \o <<" ">> : a \in ProseTokens} \cup {a \o <<" ">> \o b \o <<" ">> : a \in ProseTokens, b \in ProseTokens},
         ProseTails)
SpecProse == DetectorStartsOn(ProseInputs) /\ [][Detect]_vars

\* at least two letters
LetterRun(t) == Len(t) >= 2 /\ \A k \in DOMAIN t : t[k] \in Letter
\* a letter-only token, optionally hyphenated
LetterToken(t) ==
  \/ LetterRun(t)
  \/ \E h \in DOMAIN t :
       t[h] = "-" /\ LetterRun(SubSeq(t, 1, h - 1)) /\ LetterRun(SubSeq(t, h + 1, Len(t)))
\* every letter of the token is an uppercase letter
AllCapsToken(t) == \A k \in DOMAIN t : t[k] \notin Ll
NameLike(t) ==
  LetterToken(t) /\ ~AllCapsToken(t) /\ toLowerCase(t) \notin detectNameInProse_notAName
\* the name tokens a chunk may be reported with: its first token when the
\* second is a reporting verb, its first two when the third is
NamesOfChunk(parts) ==
  (IF Len(parts) >= 2 /\ NameLike(parts[1]) /\ toLowerCase(parts[2]) \in verbs
   THEN {parts[1]} ELSE {})
  \cup
  (IF Len(parts) >= 3 /\ NameLike(parts[1]) /\ NameLike(parts[2]) /\ toLowerCase(parts[3]) \in verbs
   THEN {parts[1] \o <<" ">> \o parts[2]} ELSE {})
RECURSIVE NamesOfFirstChunk(_)
\* the names of the first chunk that has any
NamesOfFirstChunk(chunks) ==
  IF chunks = <<>> THEN {}
  ELSE IF NamesOfChunk(TokensOf(Head(chunks))) # {} THEN NamesOfChunk(TokensOf(Head(chunks)))
  ELSE NamesOfFirstChunk(Tail(chunks))

\* C20: name_in_prose is reported exactly when some sentence-like chunk
\* starts with one or two letter-only tokens (at least two letters,
\* optionally hyphenated) that are not all-caps and not in the non-name word
\* list, followed at once by a reporting verb; the match is the name tokens
\* of the first such chunk, and an all-caps token in the name position never
\* gives a match.
C20_NameInProseExactlyWhen ==
  Has(result) =>
    \A found \in {EntriesOf(The(result), "name_in_prose")}, names \in {NamesOfFirstChunk(chunksOf(note))} :
      /\ (found = <<>>) = (names = {})
      /\ found # <<>> => (Len(found) = 1 /\ found[1].match \in names)
      /\ \A k \in DOMAIN found :
           \A t \in Range(TokensOf(found[k].match)) : ~AllCapsToken(t)

(* ------------------------- the age allow-list (C21) --------------------- *)
\* a range with an age unit followed by a range whose unit is hyphenated, and
\* decades and ranges next to precise ages
AllowListTexts ==
  {Chars("20-30 yo then 20-30-") \o <<aring>> \o Chars("rig"), Chars("in her 40s, 47 years old"),
   Chars("20-30 years old"), Chars("age 47, range 20 to 30"), Chars("40s 47M"),
   Chars("20-30-") \o <<aring>> \o Chars("rig")}
SpecAllow == DetectorStartsOn(AgeRangeTexts \cup PreciseAgeTexts \cup AllowListTexts) /\ [][Detect]_vars

\* the non-empty matches of a pattern, as a set
HitsOf(re, s) == {m \in Range(matchAll(re, s, 1)) : Hit(s, m) # <<>>}
\* the allowed spans: the matches of a decade pattern, of a two-ended numeric
\* range, and of a range with an age unit
SpansOf(s) ==
  HitsOf(decadeRe, s) \cup HitsOf(decadeSvRe, s) \cup HitsOf(rangeRe, s)
    \cup HitsOf(rangeWithAgeUnitEnRe, s) \cup HitsOf(rangeWithAgeUnitSvRe, s)
\* some allowed span fully contains [start, end)
Contained(spans, m) == \E sp \in spans : sp.start <= m.start /\ m.end <= sp.end
\* some allowed span shares a position with [start, end)
Overlaps(spans, m) == \E sp \in spans : sp.start < m.end /\ m.start < sp.end
\* the matches of candidate c that neither lie in an allowed span nor are a
\* labelled range
KeptOf(s, c) ==
  {m \in HitsOf(candidates[c].re, s) :
     /\ ~Contained(SpansOf(s), m)
     /\ ~(candidates[c].canBeRange /\ Test(rangeTokenRe, Hit(s, m)))}
\* the first kept match of the first candidate that has one, as a set
FirstKept(s) ==
  LET cs == {c \in DOMAIN candidates : KeptOf(s, c) # {}}
  IN  IF cs = {} THEN {}
      ELSE LET c == CHOOSE x \in cs : \A y \in cs : x <= y
           IN  {m \in KeptOf(s, c) : \A n \in KeptOf(s, c) : m.start <= n.start}

\* C21: a candidate of the precise-age detector is suppressed by the
\* allow-list exactly when an allowed span contains it: precise_age is the
\* first candidate match that no allowed span fully contains (and that is no
\* labelled range), so a candidate that only partly overlaps a span is
\* reported and no reported match lies inside an allowed span.
C21_SuppressedIffContained ==
  Has(result) =>
    \A found \in {EntriesOf(The(result), "precise_age")}, kept \in {FirstKept(note)} :
      /\ (found = <<>>) = (kept = {})
      /\ \A m \in kept :
           /\ found = <<[reason |-> "precise_age", match |-> Hit(note, m)]>>
           /\ ~Contained(SpansOf(note), m)
\* a candidate inside a range with an age unit was suppressed, and a later
\* candidate that only partly overlaps a range was reported
C21_Witness ==
  /\ Has(result)
  /\ \E m \in HitsOf(enPreciseRe, note) : Contained(SpansOf(note), m)
  /\ \E m \in FirstKept(note) :
       /\ Overlaps(SpansOf(note), m)
       /\ EntriesOf(The(result), "precise_age") = <<[reason |-> "precise_age", match |-> Hit(note, m)]>>

(* --------------------------- reasons and matches (C22) ------------------ *)
\* C22: the reasons and the matches of a result have the same length, at
\* most 14, and matches[i].reason = reasons[i] for every i; no reason occurs
\* twice, and the de-duplication removes no entry of the two arrays the
\* call has filled.
C22_ReasonsAndMatchesAligned ==
  Has(result) =>
    /\ Len(The(result).reasons) = Len(The(result).matches)
    /\ Len(The(result).reasons) <= 14
    /\ \A i \in DOMAIN The(result).matches : The(result).matches[i].reason = The(result).reasons[i]
    /\ \A i \in DOMAIN The(result).matches : \A j \in DOMAIN The(result).matches :
         The(result).matches[i].reason = The(result).matches[j].reason => i = j
    /\ The(result).reasons = arrays.reasons
    /\ The(result).matches = arrays.matches
\* a result with at least three entries, two of them with the same matched
\* string under different reasons
C22_Witness ==
  /\ Has(result)
  /\ Len(The(result).matches) >= 3
  /\ \E i \in DOMAIN The(result).matches : \E j \in DOMAIN The(result).matches :
       i # j /\ The(result).matches[i].match = The(result).matches[j].match

(* ------------------------- what is sent upstream (C23) ------------------ *)
\* the result of the detector of the serving handler for the request texts
\* that reach it, evaluated once
CheckedOf ==
  LET RECURSIVE Table(_)
      Table(ts) == IF ts = {} THEN <<>>
                   ELSE LET t == CHOOSE x \in ts : TRUE
                        IN  (t :> [v \in Versions |->
                                     IF v = "part_001" THEN Returned(PushAll(NewArrays, DetectionsOf[t]))
                                     ELSE Detection3Of[t]]) @@ Table(ts \ {t})
  IN  Table(ReachDetector)
\* C23: the text sent upstream for a request is exactly the text of that
\* request's body, unmodified and untrimmed, and it is the text whose
\* detection result, found for the same request, has no identifiers.
C23_SentTextIsTheCheckedText ==
  \A r \in Req :
    Has(sent[r]) =>
      /\ The(sent[r]) = TextOf(body[r])
      /\ Detected(r)
      /\ ~The(detection[r]).hasIdentifiers
      /\ The(detection[r]) = CheckedOf[The(sent[r])][version]
\* two requests with different texts, one of them with whitespace around
\* it, were both sent upstream
C23_Witness ==
  \E r \in Req, q \in Req :
    /\ sent[r] = Some(Chars("  stable \n")) /\ body[r].text = sent[r]
    /\ sent[q] = Some(CleanText) /\ body[q].text = sent[q]
    /\ Detected(r) /\ Detected(q)

(* ---------------------------- one response (C24) ------------------------ *)
\* the statuses of an upstream failure
FailureStatuses == {502, 429, 401}
\* what holds of the response of request r in every state
OneResponse(r) ==
  /\ Has(response[r]) = (pc[r] = "done")
  /\ Has(response[r]) =>
       /\ The(response[r]).status \in {200, 400, 413} \cup FailureStatuses
       /\ The(response[r]).status = 200 => (Has(sent[r]) /\ caught[r] = None)
       /\ The(response[r]).status = 400 =>
            \/ ~body[r].json
            \/ IsBlank(TextOf(body[r]))
            \/ (Detected(r) /\ The(detection[r]).hasIdentifiers)
       /\ The(response[r]).status = 413 => Len(TextOf(body[r])) > 20000
       /\ The(response[r]).status \in FailureStatuses => (client[r] /\ Has(caught[r]))
  /\ Has(caught[r]) => (Has(response[r]) /\ The(response[r]).status \in FailureStatuses)
\* C24: every request ends with exactly one response: in the end each
\* request that has arrived is answered, the response is never replaced, the
\* status is 200 only after a successful upstream call and otherwise 400,
\* 413, 502, 429 or 401, and an error of the client creation or of the
\* upstream call is always answered with 502, 429 or 401.
C24_EveryRequestGetsOneResponse ==
  /\ [](\A r \in Req : OneResponse(r))
  /\ [][\A r \in Req : Has(response[r]) => response'[r] = response[r]]_vars
  /\ <>[](\A r \in Req : pc[r] \in {"idle", "done"})
\* one request was answered 200 after its upstream call, another 401 after
\* the upstream call threw an error with status 403
C24_Witness ==
  \E r \in Req, q \in Req :
    /\ pc[r] = "done" /\ The(response[r]).status = 200 /\ Has(sent[r]) /\ caught[r] = None
    /\ pc[q] = "done" /\ The(response[q]).status = 401 /\ caught[q] = Some(UpstreamError(403, "", ""))

(* ----------------------- upstream failures (C25) ------------------------ *)
\* the response the documented mapping gives for a caught error
MappedStatus(e) == IF e.status = 429 THEN 429 ELSE IF e.status \in {401, 403} THEN 401 ELSE 502
MappedKey(e) ==
  IF e.status = 429
  THEN (IF e.code = "insufficient_quota" \/ e.type = "insufficient_quota"
        THEN "insufficient_quota" ELSE "rate_limited")
  ELSE IF e.status \in {401, 403} THEN "auth_failed" ELSE "upstream_failed"
\* C25: a failure of the upstream call is answered with status 429 and
\* errorKey insufficient_quota (the error's code or type is
\* insufficient_quota) or rate_limited for upstream status 429, with status
\* 401 and errorKey auth_failed for upstream status 401 or 403, and with
\* status 502 and errorKey upstream_failed otherwise; the body has a debug
\* field only when NODE_ENV is development.
C25_UpstreamFailureMapping ==
  \A r \in Req :
    (Has(caught[r]) /\ Has(response[r])) =>
      /\ The(response[r]).status = MappedStatus(The(caught[r]))
      /\ The(response[r]).errorKey = MappedKey(The(caught[r]))
      /\ The(response[r]).debug => nodeEnv = "development"

(* ------------------------- one request in flight (C26) ------------------ *)
NonBlank(t) == \E k \in DOMAIN t : t[k] \notin Space
\* C26: at most one request of the page is in flight at any time;
\* isSubmitting is true exactly from the start of a submission until its
\* outcome has been handled; and a submission starts only when the
\* confirmation box is checked, the text is not blank and isSubmitting is
\* false.
C26_AtMostOneRequestInFlight ==
  /\ [](Len(flights) <= 1 /\ isSubmitting = (flights # <<>>))
  /\ [][Len(flights') > Len(flights) => (confirmed /\ NonBlank(textInput) /\ ~isSubmitting)]_vars
\* a second submission is in flight after the first one returned, with the
\* box checked and a text present: only isSubmitting keeps the button off
C26_Witness ==
  /\ Len(flights) = 1
  /\ isSubmitting
  /\ settled # None
  /\ confirmed /\ NonBlank(textInput)

(* --------------------------- the form unlocks (C27) --------------------- *)
\* the outcomes in which something is thrown: fetch rejects, or the body of
\* a successful response cannot be read as an object
Thrown(res) == res.kind = "rejects" \/ (res.ok /\ res.data.parsed # "object")
\* the error key the page shows after an outcome, "null" after a success
KeyAfter(res) ==
  IF Thrown(res) THEN "network"
  ELSE IF res.ok THEN "null"
  ELSE IF res.data.parsed = "object" /\ res.data.errorKey # "" THEN res.data.errorKey
  ELSE "rejected"
Started == Len(flights') > Len(flights)
\* a call of onSubmit has ended in this step
Ended == Len(flights') < Len(flights)
\* the call that ended in this step got a note
GotNote == The(settled').res.kind = "response" /\ The(settled').res.ok /\ ~Thrown(The(settled').res)
\* C28: a submission is sent with the language selected when it starts and
\* clears the stored note of that language only; the note it gets back is
\* stored under the language of the request, whatever language is selected
\* when the response arrives; the stored note of a language changes in no
\* other way.
C28_NoteStoredUnderRequestLanguage ==
  /\ [][Started => /\ flights'[Len(flights')].language = lang
                   /\ soapByLang' = [soapByLang EXCEPT ![lang] = ""]]_vars
  /\ [][(Ended /\ GotNote) =>
          soapByLang' = [soapByLang EXCEPT ![The(settled').language] = The(settled').res.data.soap]]_vars
  /\ [][(soapByLang' # soapByLang) => (Started \/ (Ended /\ GotNote))]_vars
\* a note has arrived after the user switched the language: it is stored
\* under the language of the request, next to the older note of the other
\* language
C28_Witness ==
  /\ settled # None
  /\ flights = <<>>
  /\ The(settled).res = FetchResult("response", TRUE, Data("object", "", "", FALSE, "S: no fever"))
  /\ The(settled).langAtEnd # The(settled).language
  /\ soapByLang[The(settled).language] = "S: no fever"
  /\ soapByLang[The(settled).langAtEnd] # ""

(* ---------------------------- labelled ages (C29) ----------------------- *)
AgeLabelWords == {Chars("age"), Chars("aged"), <<aring>> \o Chars("lder")}
\* what stands between the label and the number
AfterLabel == {Chars(" "), Chars(": "), Chars(":"), Chars("-"), Chars(" - ")}
\* what stands between the two bounds of a range
RangeSeparators == {Chars("-"), <<ndash>>, Chars(" to ")}
LabelAges == {10, 20, 30, 47, 65, 99}
\* a label, a separator and one age
SingleLabelTexts ==
  {l \o s \o TwoDigits(n) : l \in AgeLabelWords, s \in AfterLabel, n \in LabelAges}
\* a label, a space and two ages with a range separator between them
RangeLabelTexts ==
  {l \o <<" ">> \o TwoDigits(n) \o s \o TwoDigits(m) :
     l \in AgeLabelWords, s \in RangeSeparators, n \in LabelAges, m \in LabelAges}
SpecAgeLabel == DetectorStartsOn(SingleLabelTexts \cup RangeLabelTexts) /\ [][Detect]_vars

\* C29: a labelled single age ('age 47', 'age: 47', 'age-47', 'aged - 47',
\* and the Swedish label with a hyphen) is reported as precise_age whichever
\* separator follows the label; a labelled age with two bounds ('age 20-30',
\* 'age 20 to 30') is not reported.
C29_OnlyTwoBoundFormsAreExempt ==
  Has(result) =>
    /\ note \in SingleLabelTexts => EntriesOf(The(result), "precise_age") # <<>>
    /\ note \in RangeLabelTexts => EntriesOf(The(result), "precise_age") = <<>>
====
